---- MODULE Spec2Model ----
(***************************************************************************)
(* A model of the zari mixing core: the Timeline with its tracks, clips,   *)
(* mute/solo state and cached audible set (engine/timeline.rs,             *)
(* engine/track.rs, engine/clip.rs), the sample conversions and helpers    *)
(* (engine/mod.rs, engine/utils.rs) and the AudioEngine that shares the    *)
(* Timeline between the control path and the output callback               *)
(* (engine/audio_engine.rs).                                               *)
(*                                                                         *)
(* Normalized samples and volumes are dyadic rationals k/Den and are       *)
(* stored as the integer k, so every product and sum the mixer forms on    *)
(* the modelled inputs is exact, as it is in f32/f64.                      *)
(***************************************************************************)
EXTENDS Integers, Naturals, Sequences, FiniteSets, TLC

VARIABLES
    tracks,             \* Timeline.tracks: Vec<Track>
    active_track_ids,   \* Timeline.active_track_ids: HashSet<TrackId>
    playhead_position,  \* Timeline.playhead_position: u64
    buffer,             \* the caller's buffer after the last call, when it was process
    mixed,              \* per frame of that process call: ids of the tracks mixed
    call,               \* the last operation invoked and its arguments
    result,             \* what that operation returned
    overflow_checks,    \* build profile: TRUE = overflow panics, FALSE = it wraps
    config,             \* AudioEngine.config: output sample type and channel count
    output_stream,      \* AudioEngine.output_stream.is_some()
    input_stream,       \* AudioEngine.input_stream.is_some()
    lock,               \* owner of the Mutex<Timeline>
    poisoned,           \* the Mutex was held by a thread that panicked
    pc_render,          \* position of the output callback
    pc_ctrl,            \* position of the control thread
    frame_idx,          \* frame_idx of the running process call
    block               \* the Timeline state the running render block started from

tlvars == <<tracks, active_track_ids, playhead_position>>
rendervars == <<buffer, mixed>>
enginevars == <<config, output_stream, input_stream, lock, poisoned, pc_render, pc_ctrl,
                frame_idx, block>>
vars == <<tracks, active_track_ids, playhead_position, buffer, mixed, call, result,
          overflow_checks, config, output_stream, input_stream, lock, poisoned,
          pc_render, pc_ctrl, frame_idx, block>>

----------------------------------------------------------------------------
(* Bounds of the model *)

MaxTracks == 3        \* tracks created in the mute/solo specification
MaxCtlTracks == 2     \* tracks created in the specifications that also hold clips
MaxClips == 1         \* clips appended to one track
MaxFrames == 2        \* frames of one render block
MaxChannels == 2      \* largest output channel count of a render call
MaxPlayhead == 2      \* render calls start at a playhead below this
MaxClipTracks == 1    \* tracks created in the clip placement specification
MaxTrackClips == 3    \* clips appended to one track in that specification
MaxDurClips == 2      \* clips on each track of the duration specification
MaxMixClips == 2      \* clips on the track of the mono mixing specification
MaxMixPlayhead == 1   \* render calls of that specification start below this
MaxMixFrames == 4     \* frames of one render block in that specification
MaxMixChannels == 3   \* largest output channel count in that specification
MaxUtilLen == 4       \* samples of an interleaved buffer given to Utils
MaxUtilChannels == 3  \* channels given to Utils
MaxChannelLen == 2    \* samples of one channel given to Utils::interleave_samples

(* Den: the denominator of the stored dyadic values (1.0 is stored as Den). *)
Den == 8

(* NaN: the value that stands for an f32 NaN among the stored values; every  *)
(* comparison with it is false.                                              *)
NaN == -1000000

(* TLC's integers end at 2^31 - 1, so the largest value of each              *)
(* unsigned type is stored as that number: u32_MAX stands for u32::MAX       *)
(* (4294967295) among the TrackIds and u64_MAX for u64::MAX                  *)
(* (18446744073709551615) among the playhead positions.  No stored id or     *)
(* position lies between the small values and these.                         *)
u32_MAX == 2147483647
u64_MAX == 2147483647

(* F64Huge: stands for every f64 of 2^64 or more, +infinity included         *)
(* (2^62 s, 1e30 s), among the seconds given to set_playhead_seconds.        *)
F64Huge == 2000000000

----------------------------------------------------------------------------
(* Track and TrackId (engine/track.rs) *)

\* Track::default with the id and name of Track::new
Track_new(id) ==
    [id |-> id, name |-> <<"Track", id>>, volume |-> Den, clips |-> <<>>,
     is_muted |-> FALSE, is_soloed |-> FALSE]

\* Track::mute, unmute, solo, unsolo, toggle_mute and toggle_solo: each
\* assigns one flag of the track and nothing else
Track_mute(track) == [track EXCEPT !.is_muted = TRUE]

Track_unmute(track) == [track EXCEPT !.is_muted = FALSE]

Track_solo(track) == [track EXCEPT !.is_soloed = TRUE]

Track_unsolo(track) == [track EXCEPT !.is_soloed = FALSE]

Track_toggle_mute(track) == [track EXCEPT !.is_muted = ~track.is_muted]

Track_toggle_solo(track) == [track EXCEPT !.is_soloed = ~track.is_soloed]

\* an assignment to the pub field Track.id
Track_set_id(track, id) == [track EXCEPT !.id = id]

\* Vec position (1-based) of the first track with this id, 0 for None
get_mut_track_missing_first(ts, track_id) ==
    IF \E i \in 1..Len(ts) : ts[i].id = track_id
    THEN CHOOSE i \in 1..Len(ts) :
            /\ ts[i].id = track_id
            /\ \A j \in 1..(i-1) : ts[j].id # track_id
    ELSE IF Len(ts) > 0 THEN 1 ELSE 0

get_mut_track(ts, track_id) ==
    IF \E i \in 1..Len(ts) : ts[i].id = track_id
    THEN CHOOSE i \in 1..Len(ts) :
            /\ ts[i].id = track_id
            /\ \A j \in 1..(i-1) : ts[j].id # track_id
    ELSE 0

Ok == [tag |-> "Ok", val |-> 0]
OkVal(v) == [tag |-> "Ok", val |-> v]
Err(kind, v) == [tag |-> kind, val |-> v]
TrackNotFound(track_id) == Err("TrackNotFound", track_id)

\* a + b on an unsigned type whose largest value is max: the sum, or on
\* overflow a panic (with overflow checks) or the wrapped sum (without)
add_unsigned(a, b, max) ==
    IF a > max - b
    THEN [val |-> (a - max - 1) + b, panic |-> overflow_checks]
    ELSE [val |-> a + b, panic |-> FALSE]

----------------------------------------------------------------------------
(* Timeline control operations (engine/timeline.rs).  Each is an action    *)
(* over tracks, active_track_ids, playhead_position and result.            *)

\* an id computation that repeats the last track's id
new_track_id_repeating(ts) ==
    [val |-> IF Len(ts) > 0 THEN ts[Len(ts)].id ELSE 1, panic |-> FALSE]

\* `track.id + TrackId(1)`, an addition of u32 (TrackId::add), or TrackId(1)
new_track_id(ts) ==
    IF Len(ts) > 0 THEN add_unsigned(ts[Len(ts)].id, 1, u32_MAX)
    ELSE [val |-> 1, panic |-> FALSE]

new_track ==
    LET track_id == new_track_id(tracks) IN
    IF track_id.panic
    THEN /\ result' = Err("Panic", 1)
         /\ UNCHANGED <<tracks, active_track_ids, playhead_position>>
    ELSE /\ active_track_ids' = active_track_ids \cup {track_id.val}
         /\ tracks' = Append(tracks, Track_new(track_id.val))
         /\ result' = OkVal(track_id.val)
         /\ UNCHANGED playhead_position

\* a mute that unmutes a track it finds muted
mute_toggling(ts, active, i) ==
    IF ~ts[i].is_muted
    THEN [tracks |-> [ts EXCEPT ![i].is_muted = TRUE, ![i].is_soloed = FALSE],
          active |-> active \ {ts[i].id}]
    ELSE [tracks |-> [ts EXCEPT ![i].is_muted = FALSE],
          active |-> active \cup {ts[i].id}]

mute_unguarded(ts, active, i) ==
    [tracks |-> [ts EXCEPT ![i].is_muted = TRUE, ![i].is_soloed = FALSE],
     active |-> active \ {ts[i].id}]

\* the body of Timeline::mute once the track is found at position i
mute_found(ts, active, i) ==
    IF ~ts[i].is_muted
    THEN [tracks |-> [ts EXCEPT ![i].is_muted = TRUE, ![i].is_soloed = FALSE],
          active |-> active \ {ts[i].id}]
    ELSE [tracks |-> ts, active |-> active]

mute(track_id) ==
    LET i == get_mut_track(tracks, track_id) IN
    /\ IF i = 0
       THEN /\ result' = TrackNotFound(track_id)
            /\ UNCHANGED <<tracks, active_track_ids>>
       ELSE /\ tracks' = mute_found(tracks, active_track_ids, i).tracks
            /\ active_track_ids' = mute_found(tracks, active_track_ids, i).active
            /\ result' = Ok
    /\ UNCHANGED playhead_position

\* an unmute that clears the flag and leaves the audible set alone
unmute_flag_only(ts, active, i) ==
    IF ts[i].is_muted
    THEN [tracks |-> [ts EXCEPT ![i].is_muted = FALSE], active |-> active]
    ELSE [tracks |-> ts, active |-> active]

\* the body of Timeline::unmute once the track is found at position i
unmute_found(ts, active, i) ==
    IF ts[i].is_muted
    THEN [tracks |-> [ts EXCEPT ![i].is_muted = FALSE],
          active |-> active \cup {ts[i].id}]
    ELSE [tracks |-> ts, active |-> active]

unmute(track_id) ==
    LET i == get_mut_track(tracks, track_id) IN
    /\ IF i = 0
       THEN /\ result' = TrackNotFound(track_id)
            /\ UNCHANGED <<tracks, active_track_ids>>
       ELSE /\ tracks' = unmute_found(tracks, active_track_ids, i).tracks
            /\ active_track_ids' = unmute_found(tracks, active_track_ids, i).active
            /\ result' = Ok
    /\ UNCHANGED playhead_position

is_muted(track_id) ==
    LET i == get_mut_track(tracks, track_id) IN
    /\ result' = IF i = 0 THEN TrackNotFound(track_id)
                 ELSE OkVal(IF tracks[i].is_muted THEN 1 ELSE 0)
    /\ UNCHANGED tlvars

solo_additive(ts, active, i) ==
    IF ~ts[i].is_soloed
    THEN [tracks |-> [j \in 1..Len(ts) |->
                        IF j = i THEN [ts[j] EXCEPT !.is_soloed = TRUE]
                        ELSE [ts[j] EXCEPT !.is_muted = TRUE]],
          active |-> {ts[i].id}]
    ELSE [tracks |-> ts, active |-> active]

\* the body of Timeline::solo once the track is found at position i
solo_found(ts, active, i) ==
    IF ~ts[i].is_soloed
    THEN [tracks |-> [j \in 1..Len(ts) |->
                        IF j = i THEN Track_solo(ts[j])
                        ELSE IF ts[j].id # ts[i].id
                        THEN Track_mute(Track_unsolo(ts[j]))
                        ELSE ts[j]],
          active |-> {ts[i].id}]
    ELSE [tracks |-> ts, active |-> active]

solo(track_id) ==
    LET i == get_mut_track(tracks, track_id) IN
    /\ IF i = 0
       THEN /\ result' = TrackNotFound(track_id)
            /\ UNCHANGED <<tracks, active_track_ids>>
       ELSE /\ tracks' = solo_found(tracks, active_track_ids, i).tracks
            /\ active_track_ids' = solo_found(tracks, active_track_ids, i).active
            /\ result' = Ok
    /\ UNCHANGED playhead_position

\* an unsolo that unmutes the other tracks again
unsolo_restoring(ts, active, i) ==
    IF ts[i].is_soloed
    THEN [tracks |-> [j \in 1..Len(ts) |->
                        IF j = i THEN [ts[j] EXCEPT !.is_soloed = FALSE]
                        ELSE [ts[j] EXCEPT !.is_muted = FALSE]],
          active |-> {ts[j].id : j \in 1..Len(ts)}]
    ELSE [tracks |-> ts, active |-> active]

\* the body of Timeline::unsolo once the track is found at position i
unsolo_found(ts, active, i) ==
    IF ts[i].is_soloed
    THEN [tracks |-> [ts EXCEPT ![i].is_soloed = FALSE],
          active |-> IF ts[i].is_muted THEN active \ {ts[i].id} ELSE active]
    ELSE [tracks |-> ts, active |-> active]

unsolo(track_id) ==
    LET i == get_mut_track(tracks, track_id) IN
    /\ IF i = 0
       THEN /\ result' = TrackNotFound(track_id)
            /\ UNCHANGED <<tracks, active_track_ids>>
       ELSE /\ tracks' = unsolo_found(tracks, active_track_ids, i).tracks
            /\ active_track_ids' = unsolo_found(tracks, active_track_ids, i).active
            /\ result' = Ok
    /\ UNCHANGED playhead_position

is_soloed(track_id) ==
    LET i == get_mut_track(tracks, track_id) IN
    /\ result' = IF i = 0 THEN TrackNotFound(track_id)
                 ELSE OkVal(IF tracks[i].is_soloed THEN 1 ELSE 0)
    /\ UNCHANGED tlvars

track_count == Len(tracks)

get_track_ids == [i \in 1..Len(tracks) |-> tracks[i].id]

----------------------------------------------------------------------------
(* Clips (engine/clip.rs) and the sources they are decoded from *)

\* Timeline.sample_rate, fixed by Timeline::new
sample_rate == 4

\* A source is what hound::WavReader::open finds at a path: whether the file
\* opens, its WavSpec and its raw samples; `filter` is what the sinc filter
\* returns for this file at the timeline rate (an outcome of the rubato
\* library, given with the input).
Source(open_ok, format, bits, channels, rate, samples, filter) ==
    [open_ok |-> open_ok, sample_format |-> format, bits_per_sample |-> bits,
     channels |-> channels, sample_rate |-> rate, samples |-> samples,
     filter |-> filter]

NoFilter == [tag |-> "Ok", waves |-> <<>>]

\* an item of reader.into_samples() that is Err(_): the sample cannot be read
ReadError == -2000000

Sources ==
    << \* 1: mono 32-bit float, two frames 0.5, 1.0
       Source(TRUE, "Float", 32, 1, sample_rate, <<Den \div 2, Den>>, NoFilter),
       \* 2: stereo 16-bit integer, one frame (full scale, minimum)
       Source(TRUE, "Int", 16, 2, sample_rate, <<32767, -32768>>, NoFilter),
       \* 3: a file that does not open
       Source(FALSE, "Int", 16, 1, sample_rate, <<>>, NoFilter),
       \* 4: a 12-bit integer file
       Source(TRUE, "Int", 12, 1, sample_rate, <<0>>, NoFilter),
       \* 5: stereo 32-bit float, two frames (0.5, -0.5), (0.25, -0.25)
       Source(TRUE, "Float", 32, 2, sample_rate,
              <<Den \div 2, -(Den \div 2), Den \div 4, -(Den \div 4)>>, NoFilter),
       \* 6: three channels of 16-bit integers, one frame
       Source(TRUE, "Int", 16, 3, sample_rate, <<0, 32767, -32767>>, NoFilter),
       \* 7: mono at twice the timeline rate; the sinc filter cannot be built
       Source(TRUE, "Float", 32, 1, 2 * sample_rate, <<Den, 0>>,
              [tag |-> "ResamplerConstructionError", waves |-> <<>>]),
       \* 8: mono at twice the timeline rate; the sinc filter fails on the input
       Source(TRUE, "Float", 32, 1, 2 * sample_rate, <<Den, 0>>,
              [tag |-> "ResampleError", waves |-> <<>>]),
       \* 9: stereo at twice the timeline rate, resampled to three frames
       Source(TRUE, "Float", 32, 2, 2 * sample_rate, <<Den, 0, 0, Den>>,
              [tag |-> "Ok", waves |-> << <<Den \div 2, 0, Den \div 4>>,
                                         <<0, Den \div 2, 0>> >>]),
       \* 10: mono 32-bit float, four frames 0.5, -0.5, 0.25, -0.25
       Source(TRUE, "Float", 32, 1, sample_rate,
              <<Den \div 2, -(Den \div 2), Den \div 4, -(Den \div 4)>>, NoFilter),
       \* 11: a mono 64-bit float file
       Source(TRUE, "Float", 64, 1, sample_rate, <<0>>, NoFilter),
       \* 12: stereo 32-bit float, two frames (0.25, 0.5), (0.5, 1.0)
       Source(TRUE, "Float", 32, 2, sample_rate,
              <<Den \div 4, Den \div 2, Den \div 2, Den>>, NoFilter),
       \* 13: a stereo file whose data chunk holds three samples
       Source(TRUE, "Float", 32, 2, sample_rate, <<Den, 0, Den>>, NoFilter),
       \* 14: an empty mono file at twice the timeline rate
       Source(TRUE, "Int", 16, 1, 2 * sample_rate, <<>>,
              [tag |-> "ResamplerConstructionError", waves |-> <<>>]),
       \* 15: a truncated mono 16-bit file: the second sample cannot be read
       Source(TRUE, "Int", 16, 1, sample_rate, <<32767, ReadError>>, NoFilter),
       \* 16: a stereo 32-bit float file with an unreadable sample in its
       \* first frame
       Source(TRUE, "Float", 32, 2, sample_rate,
              <<ReadError, Den, Den \div 2, Den \div 2>>, NoFilter) >>

\* the sources of the specifications that hold at most one clip per track
BasicSources == 1..4

\* a clamp that returns its argument
Clamp_skipped(x, lo, hi) == x

Clamp(x, lo, hi) == IF x < lo THEN lo ELSE IF x > hi THEN hi ELSE x

\* truncation toward zero of a / b (b > 0), as a float-to-integer `as` cast
Trunc(a, b) == IF a >= 0 THEN a \div b ELSE -((-a) \div b)

\* Scale: 1 / the divisor returned here (Scale::get_f64_scale)
ScaleMax(scale) ==
    CASE scale = "I8" -> 127
      [] scale = "I16" -> 32767
      [] scale = "I24" -> 8388607
      [] scale = "I32" -> 2147483647
      [] scale = "F32" -> 1

\* Utils::convert_sample_to_f64: (sample * scale).clamp(-1.0, 1.0) as the
\* exact fraction num / den.  An integer sample v with scale 1 / max is
\* clamp(v, -max, max) / max; a float sample is given in units of 1/Den, and
\* NaN.clamp(-1.0, 1.0) is NaN.  (In f64, max * (1.0 / max) is exactly 1.0 for
\* each of the four integer scales.)
convert_sample_to_f64(v, scale) ==
    IF scale = "F32"
    THEN [num |-> IF v = NaN THEN NaN ELSE Clamp(v, -Den, Den), den |-> Den]
    ELSE [num |-> Clamp(v, -ScaleMax(scale), ScaleMax(scale)),
          den |-> ScaleMax(scale)]

\* the fraction r in units of 1/Den, as the clip data stores it.  Exact
\* whenever r.den divides r.num * Den, which is so for every sample of
\* Sources.
Stored(r) ==
    IF r.num = NaN THEN NaN
    ELSE IF r.num >= r.den THEN Den
    ELSE IF r.num <= -r.den THEN -Den
    ELSE Trunc(r.num * Den, r.den)

convert_samples_to_f64(samples, scale) ==
    [k \in 1..Len(samples) |-> Stored(convert_sample_to_f64(samples[k], scale))]

\* Clip::read_samples_as_f64: `s.unwrap_or_default()` puts T::default() in
\* the place of every sample that cannot be read, then the samples are converted
read_samples_as_f64(samples, scale) ==
    convert_samples_to_f64(
        [k \in 1..Len(samples) |-> IF samples[k] = ReadError THEN 0 ELSE samples[k]],
        scale)

\* a decoder that reads a float file of any depth as 32-bit floats
decode_samples_lenient(src) ==
    LET scale ==
            IF src.sample_format = "Int"
            THEN CASE src.bits_per_sample = 8 -> "I8"
                   [] src.bits_per_sample = 16 -> "I16"
                   [] src.bits_per_sample = 24 -> "I24"
                   [] src.bits_per_sample = 32 -> "I32"
                   [] OTHER -> "unsupported"
            ELSE "F32"
    IN  IF scale = "unsupported"
        THEN [tag |-> "UnsupportedBitsPerSample", val |-> src.bits_per_sample,
              samples |-> <<>>]
        ELSE [tag |-> "Ok", val |-> 0,
              samples |-> read_samples_as_f64(src.samples, scale)]

\* Clip::decode_samples_to_f64
decode_samples_to_f64(src) ==
    LET scale ==
            IF src.sample_format = "Int"
            THEN CASE src.bits_per_sample = 8 -> "I8"
                   [] src.bits_per_sample = 16 -> "I16"
                   [] src.bits_per_sample = 24 -> "I24"
                   [] src.bits_per_sample = 32 -> "I32"
                   [] OTHER -> "unsupported"
            ELSE CASE src.bits_per_sample = 32 -> "F32"
                   [] OTHER -> "unsupported"
    IN  IF scale = "unsupported"
        THEN [tag |-> "UnsupportedBitsPerSample", val |-> src.bits_per_sample,
              samples |-> <<>>]
        ELSE [tag |-> "Ok", val |-> 0,
              samples |-> read_samples_as_f64(src.samples, scale)]

\* Utils::deinterleave_samples: channel c takes samples c, c + n, c + 2n, ...
\* (skip(channel_idx).step_by(num_channels))
Utils_deinterleave_samples(samples, num_channels) ==
    IF Len(samples) = 0 \/ num_channels = 0
    THEN [c \in 1..num_channels |-> <<>>]
    ELSE [c \in 1..num_channels |->
            LET count == IF Len(samples) >= c
                         THEN ((Len(samples) - c) \div num_channels) + 1
                         ELSE 0
            IN  [k \in 1..count |-> samples[c + (k - 1) * num_channels]]]

\* Utils::interleave_samples: max_frames frames of one sample per channel,
\* 0.0 (unwrap_or_default) where a channel is shorter
Utils_interleave_samples(channels) ==
    IF Len(channels) = 0 THEN <<>>
    ELSE LET n == Len(channels)
             lens == {Len(channels[c]) : c \in 1..n}
             max_frames == CHOOSE m \in lens : \A l \in lens : l <= m
         IN  [k \in 1..(max_frames * n) |->
                LET frame == (k - 1) \div n
                    channel == channels[((k - 1) % n) + 1]
                IN  IF frame < Len(channel) THEN channel[frame + 1] ELSE 0]

\* an interleave that loses the last sample
Resampler_interleave_truncated(waves, num_frames, num_channels) ==
    [k \in 1..(num_channels * num_frames - 1) |->
        waves[((k - 1) % num_channels) + 1][((k - 1) \div num_channels) + 1]]

\* Resampler::interleave_samples
Resampler_interleave_samples(waves, num_frames, num_channels) ==
    [k \in 1..(num_channels * num_frames) |->
        waves[((k - 1) % num_channels) + 1][((k - 1) \div num_channels) + 1]]

\* Resampler::deinterleave_samples: the frames of samples.chunks_exact
Resampler_deinterleave_samples(samples, num_frames, num_channels) ==
    [c \in 1..num_channels |->
        [f \in 1..(Len(samples) \div num_channels) |->
            samples[(f - 1) * num_channels + c]]]

\* what Resampler::resample gave the sinc filter: nothing, or the rates of
\* the ratio new / old and the deinterleaved input
NoSinc == [invoked |-> FALSE, new_sample_rate |-> 0, old_sample_rate |-> 0,
           input |-> <<>>]

\* a resample without the early return
Resampler_resample_unguarded(samples, new_sample_rate, old_sample_rate, num_channels, filter) ==
    LET sinc == [invoked |-> TRUE, new_sample_rate |-> new_sample_rate,
                 old_sample_rate |-> old_sample_rate, input |-> <<>>]
    IN  IF filter.tag # "Ok"
        THEN [tag |-> filter.tag, data |-> <<>>, sinc |-> sinc]
        ELSE IF Len(filter.waves) = 0
        THEN [tag |-> "Ok", data |-> <<>>, sinc |-> sinc]
        ELSE [tag |-> "Ok", sinc |-> sinc,
              data |-> Resampler_interleave_samples(filter.waves,
                            Len(filter.waves[1]), Len(filter.waves))]

\* Resampler::resample; `filter` is what SincFixedIn::new and process return
\* for this input: an error of either, or the output waves
Resampler_resample(samples, new_sample_rate, old_sample_rate, num_channels, filter) ==
    IF num_channels = 0 \/ Len(samples) = 0
    THEN [tag |-> "Ok", data |-> <<>>, sinc |-> NoSinc]
    ELSE LET num_frames == Len(samples) \div num_channels
             sinc == [invoked |-> TRUE, new_sample_rate |-> new_sample_rate,
                      old_sample_rate |-> old_sample_rate,
                      input |-> Resampler_deinterleave_samples(samples, num_frames,
                                                              num_channels)]
         IN  IF filter.tag # "Ok"
             THEN [tag |-> filter.tag, data |-> <<>>, sinc |-> sinc]
             ELSE IF Len(filter.waves) = 0
             THEN [tag |-> "Ok", data |-> <<>>, sinc |-> sinc]
             ELSE [tag |-> "Ok", sinc |-> sinc,
                   data |-> Resampler_interleave_samples(filter.waves,
                                 Len(filter.waves[1]), Len(filter.waves))]

\* hound::WavReader::open: the file exists and is a well-formed WAV file;
\* hound refuses a file with zero channels and a data chunk whose number of
\* samples is not a multiple of the channel count
WavReader_open(src) ==
    /\ src.open_ok
    /\ src.channels > 0
    /\ Len(src.samples) % src.channels = 0

\* what Clip::from_path gave Resampler::resample: nothing, or its arguments
NoResample == [invoked |-> FALSE, new_sample_rate |-> 0, old_sample_rate |-> 0,
               num_channels |-> 0]

NoClip == [data |-> <<>>, channel |-> 0, start_time_in_samples |-> 0]

\* a from_path that resamples every file
Clip_from_path_always_resampling(src, start_time_in_samples, timeline_sample_rate) ==
    IF ~WavReader_open(src)
    THEN [tag |-> "FileError", val |-> 0, clip |-> NoClip, resample |-> NoResample]
    ELSE LET dec == decode_samples_to_f64(src) IN
         IF dec.tag # "Ok"
         THEN [tag |-> dec.tag, val |-> dec.val, clip |-> NoClip,
               resample |-> NoResample]
         ELSE LET res == Resampler_resample(dec.samples, timeline_sample_rate,
                             src.sample_rate, src.channels, src.filter)
                  resample == [invoked |-> TRUE,
                               new_sample_rate |-> timeline_sample_rate,
                               old_sample_rate |-> src.sample_rate,
                               num_channels |-> src.channels]
              IN  IF res.tag # "Ok"
                  THEN [tag |-> res.tag, val |-> 0, clip |-> NoClip,
                        resample |-> resample]
                  ELSE [tag |-> "Ok", val |-> 0, resample |-> resample,
                        clip |-> [data |-> res.data, channel |-> src.channels,
                                  start_time_in_samples |-> start_time_in_samples]]

\* Clip::from_path; the result also tells what the resampler was called with
Clip_from_path(src, start_time_in_samples, timeline_sample_rate) ==
    IF ~WavReader_open(src)
    THEN [tag |-> "FileError", val |-> 0, clip |-> NoClip, resample |-> NoResample]
    ELSE LET dec == decode_samples_to_f64(src) IN
         IF dec.tag # "Ok"
         THEN [tag |-> dec.tag, val |-> dec.val, clip |-> NoClip,
               resample |-> NoResample]
         ELSE LET differs == src.sample_rate # timeline_sample_rate
                  res == IF differs
                         THEN Resampler_resample(dec.samples, timeline_sample_rate,
                                  src.sample_rate, src.channels, src.filter)
                         ELSE [tag |-> "Ok", data |-> dec.samples, sinc |-> NoSinc]
                  resample == IF differs
                              THEN [invoked |-> TRUE,
                                    new_sample_rate |-> timeline_sample_rate,
                                    old_sample_rate |-> src.sample_rate,
                                    num_channels |-> src.channels]
                              ELSE NoResample
              IN  IF res.tag # "Ok"
                  THEN [tag |-> res.tag, val |-> 0, clip |-> NoClip,
                        resample |-> resample]
                  ELSE [tag |-> "Ok", val |-> 0, resample |-> resample,
                        clip |-> [data |-> res.data, channel |-> src.channels,
                                  start_time_in_samples |-> start_time_in_samples]]

sample_count(clip) == Len(clip.data)

Clip_duration_in_samples(clip) == sample_count(clip) \div clip.channel

end_time_in_samples(clip) == clip.start_time_in_samples + Clip_duration_in_samples(clip)

is_mono(clip) == clip.channel = 1

is_stereo(clip) == clip.channel = 2

\* Track::find_clip_at_playhead_position: Vec position of the first clip whose
\* [start, end) holds the playhead, 0 for None
find_clip_at_playhead_position(track, playhead) ==
    LET hit(k) == /\ playhead >= track.clips[k].start_time_in_samples
                  /\ playhead < end_time_in_samples(track.clips[k])
    IN  IF \E k \in 1..Len(track.clips) : hit(k)
        THEN CHOOSE k \in 1..Len(track.clips) :
                hit(k) /\ \A j \in 1..(k-1) : ~hit(j)
        ELSE 0

\* a placement that repeats the last clip's start
add_clip_start_overlapping(track) ==
    IF Len(track.clips) > 0
    THEN track.clips[Len(track.clips)].start_time_in_samples
    ELSE 0

\* the start position Track::add_clip gives the next clip
add_clip_start(track) ==
    IF Len(track.clips) > 0
    THEN LET c == track.clips[Len(track.clips)]
         IN  c.start_time_in_samples + sample_count(c) + 1
    ELSE 0

\* an add_clip that pushes the clip before it is known to be decodable
add_clip_partial(track_id, src) ==
    LET i == get_mut_track(tracks, track_id) IN
    /\ IF i = 0
       THEN /\ result' = TrackNotFound(track_id)
            /\ UNCHANGED tracks
       ELSE LET start == add_clip_start(tracks[i])
                made == Clip_from_path(src, start, sample_rate)
            IN  IF made.tag # "Ok"
                THEN /\ result' = Err(made.tag, made.val)
                     /\ tracks' = [tracks EXCEPT ![i].clips =
                            Append(@, [data |-> <<>>, channel |-> src.channels,
                                       start_time_in_samples |-> start])]
                ELSE /\ tracks' = [tracks EXCEPT ![i].clips = Append(@, made.clip)]
                     /\ result' = Ok
    /\ UNCHANGED <<active_track_ids, playhead_position>>

\* Timeline::add_clip with Track::add_clip
add_clip(track_id, src) ==
    LET i == get_mut_track(tracks, track_id) IN
    /\ IF i = 0
       THEN /\ result' = TrackNotFound(track_id)
            /\ UNCHANGED tracks
       ELSE LET made == Clip_from_path(src, add_clip_start(tracks[i]), sample_rate)
            IN  IF made.tag # "Ok"
                THEN /\ result' = Err(made.tag, made.val)
                     /\ UNCHANGED tracks
                ELSE /\ tracks' = [tracks EXCEPT ![i].clips = Append(@, made.clip)]
                     /\ result' = Ok
    /\ UNCHANGED <<active_track_ids, playhead_position>>

\* Track::set_volume_percent's volume = percent / 100.0 in units of 1/Den
\* (exact for the multiples of 25 the specifications pass)
\* NaN / 100.0 is NaN
volume_of_percent(percent) ==
    IF percent = NaN THEN NaN ELSE Trunc(percent * Den, 100)

\* Timeline::set_volume with Track::set_volume_percent
set_volume(track_id, percent) ==
    LET i == get_mut_track(tracks, track_id)
        volume == volume_of_percent(percent)
    IN
    /\ IF i = 0
       THEN /\ result' = TrackNotFound(track_id)
            /\ UNCHANGED tracks
       ELSE IF volume # NaN /\ (volume < 0 \/ volume > Den)
            THEN /\ result' = Err("InvalidVolume", volume)
                 /\ UNCHANGED tracks
            ELSE /\ tracks' = [tracks EXCEPT ![i].volume = volume]
                 /\ result' = Ok
    /\ UNCHANGED <<active_track_ids, playhead_position>>

\* Timeline::set_track_name
\* a rename that also rewinds the playhead
set_track_name_rewinding(track_id, new_name) ==
    LET i == get_mut_track(tracks, track_id) IN
    /\ IF i = 0
       THEN /\ result' = TrackNotFound(track_id)
            /\ UNCHANGED tracks
       ELSE /\ tracks' = [tracks EXCEPT ![i].name = <<"Name", new_name>>]
            /\ result' = Ok
    /\ playhead_position' = 0
    /\ UNCHANGED active_track_ids

\* Timeline::set_track_name
set_track_name(track_id, new_name) ==
    LET i == get_mut_track(tracks, track_id) IN
    /\ IF i = 0
       THEN /\ result' = TrackNotFound(track_id)
            /\ UNCHANGED tracks
       ELSE /\ tracks' = [tracks EXCEPT ![i].name = <<"Name", new_name>>]
            /\ result' = Ok
    /\ UNCHANGED <<active_track_ids, playhead_position>>

\* Timeline::reset_playhead
reset_playhead ==
    /\ playhead_position' = 0
    /\ result' = Ok
    /\ UNCHANGED <<tracks, active_track_ids>>

\* Timeline::set_playhead_seconds, the seconds given in units of 1/Den; the
\* `as u64` cast truncates, saturates at 0 and at u64::MAX, and turns a NaN
\* into 0
set_playhead_seconds(seconds) ==
    /\ playhead_position' =
            IF seconds = NaN THEN 0
            ELSE IF seconds = F64Huge THEN u64_MAX
            ELSE IF seconds < 0 THEN 0
            ELSE Trunc(seconds * sample_rate, Den)
    /\ result' = Ok
    /\ UNCHANGED <<tracks, active_track_ids>>

\* a track duration that looks at the first clip only
Track_duration_first_clip(track) ==
    IF Len(track.clips) = 0 THEN 0
    ELSE end_time_in_samples(track.clips[1])

\* Track::duration_in_samples
Track_duration_in_samples(track) ==
    IF Len(track.clips) = 0 THEN 0
    ELSE LET ends == {end_time_in_samples(track.clips[k]) : k \in 1..Len(track.clips)}
         IN  CHOOSE m \in ends : \A e \in ends : e <= m

duration_in_samples ==
    IF Len(tracks) = 0 THEN 0
    ELSE LET ds == {Track_duration_in_samples(tracks[i]) : i \in 1..Len(tracks)}
         IN  CHOOSE m \in ds : \A d \in ds : d <= m

----------------------------------------------------------------------------
(* Output sample types (engine/mod.rs) and mixing (engine/clip.rs) *)

SampleTypes == {"u8", "i16", "i32", "f32", "f64"}

IsInt(ty) == ty \in {"u8", "i16", "i32"}

TypeMax(ty) ==
    CASE ty = "u8" -> 255
      [] ty = "i16" -> 32767
      [] ty = "i32" -> 2147483647

TypeMin(ty) ==
    CASE ty = "u8" -> 0
      [] ty = "i16" -> -32768
      [] ty = "i32" -> -2147483647 - 1

\* (x / Den) * m as a saturating, truncating cast to [lo, m], for |x| <= 2 * Den
\* and without an intermediate beyond 32 bits: m = Den * q + r
ScaleCast(x, m, lo) ==
    IF x >= Den THEN m
    ELSE IF x < -Den THEN lo
    ELSE x * (m \div Den) + Trunc(x * (m % Den), Den)

\* FromF64Sample::from_f64_sample for each output type; x in units of 1/Den.
\* A NaN stays NaN in f32 and f64, and the `as` cast of a NaN to an integer
\* type is 0.
from_f64_sample(ty, x) ==
    CASE ty = "u8" -> IF x = NaN THEN 0
                      ELSE Clamp(Trunc((x + Den) * 255, 2 * Den), 0, 255)
      [] ty = "i16" -> IF x = NaN THEN 0
                       ELSE ScaleCast(x, TypeMax(ty), TypeMin(ty))
      [] ty = "i32" -> IF x = NaN THEN 0
                       ELSE ScaleCast(x, TypeMax(ty), TypeMin(ty))
      [] ty = "f32" -> x
      [] ty = "f64" -> x

\* the f64 product `sample * volume as f64` of process_sample, both operands
\* in units of 1/Den: NaN when either operand is NaN
mul_f64(sample, volume) ==
    IF sample = NaN \/ volume = NaN THEN NaN ELSE Trunc(sample * volume, Den)

\* the floating-point sum a + b: NaN when either operand is NaN
add_f64(a, b) == IF a = NaN \/ b = NaN THEN NaN ELSE a + b

\* `*s += sample` on type ty: the sum, or on integer overflow a panic (with
\* overflow checks) or the wrapped sum (without)
add_assign(ty, a, b) ==
    IF ~IsInt(ty) THEN [val |-> add_f64(a, b), panic |-> FALSE]
    ELSE IF b > 0 /\ a > TypeMax(ty) - b
    THEN [val |-> (a - TypeMax(ty) - 1) + (b + TypeMin(ty)),
          panic |-> overflow_checks]
    ELSE IF b < 0 /\ a < TypeMin(ty) - b
    THEN [val |-> (a + TypeMax(ty) + 1) + (b - TypeMin(ty)),
          panic |-> overflow_checks]
    ELSE [val |-> a + b, panic |-> FALSE]

\* Clip::write_to_frame on the render state st = [buffer, panic]
write_to_frame(st, frame_index, channel, sample, output_channels, ty) ==
    LET position == frame_index * output_channels + channel IN
    IF st.panic \/ position >= Len(st.buffer) THEN st
    ELSE LET sum == add_assign(ty, st.buffer[position + 1], sample) IN
         IF sum.panic THEN [st EXCEPT !.panic = TRUE]
         ELSE [st EXCEPT !.buffer[position + 1] = sum.val]

\* a mono write that reaches the first output channel only
write_mono_first_channel(st, frame_index, channel, sample, output_channels, ty) ==
    write_to_frame(st, frame_index, 0, sample, output_channels, ty)

RECURSIVE write_mono(_, _, _, _, _, _)
\* the loop `for channel in 0..output_channels` of Clip::process_sample
write_mono(st, frame_index, channel, sample, output_channels, ty) ==
    IF channel >= output_channels THEN st
    ELSE write_mono(write_to_frame(st, frame_index, channel, sample, output_channels, ty),
                    frame_index, channel + 1, sample, output_channels, ty)

\* a process_sample that averages a stereo frame into a mono output
process_sample_averaging(clip, st, volume, output_channels, playhead, frame_index, ty) ==
    LET frame_within_clip == playhead - clip.start_time_in_samples
        vol(x) == mul_f64(x, volume)
        st1 == IF is_mono(clip) /\ frame_within_clip < Len(clip.data)
               THEN write_mono(st, frame_index, 0,
                        from_f64_sample(ty, vol(clip.data[frame_within_clip + 1])),
                        output_channels, ty)
               ELSE st
        idx == frame_within_clip * 2
    IN  IF is_stereo(clip) /\ idx + 1 < Len(clip.data)
        THEN LET left == clip.data[idx + 1]
                 right == clip.data[idx + 2]
             IN  IF output_channels = 1
                 THEN write_to_frame(st1, frame_index, 0,
                          from_f64_sample(ty,
                              vol(IF add_f64(left, right) = NaN THEN NaN
                                  ELSE (left + right) \div 2)),
                          output_channels, ty)
                 ELSE write_to_frame(
                          write_to_frame(st1, frame_index, 0,
                              from_f64_sample(ty, vol(left)), output_channels, ty),
                          frame_index, 1, from_f64_sample(ty, vol(right)),
                          output_channels, ty)
        ELSE st1

\* Clip::process_sample; volume and samples in units of 1/Den, so that
\* sample * volume is (sample * volume) / Den
process_sample(clip, st, volume, output_channels, playhead, frame_index, ty) ==
    LET frame_within_clip == playhead - clip.start_time_in_samples
        vol(x) == mul_f64(x, volume)
        st1 == IF is_mono(clip) /\ frame_within_clip < Len(clip.data)
               THEN write_mono(st, frame_index, 0,
                        from_f64_sample(ty, vol(clip.data[frame_within_clip + 1])),
                        output_channels, ty)
               ELSE st
        idx == frame_within_clip * 2
    IN  IF is_stereo(clip) /\ idx + 1 < Len(clip.data)
        THEN LET left == clip.data[idx + 1]
                 right == clip.data[idx + 2]
             IN  IF output_channels = 1
                 THEN write_to_frame(st1, frame_index, 0,
                          from_f64_sample(ty, vol(add_f64(left, right))),
                          output_channels, ty)
                 ELSE write_to_frame(
                          write_to_frame(st1, frame_index, 0,
                              from_f64_sample(ty, vol(left)), output_channels, ty),
                          frame_index, 1, from_f64_sample(ty, vol(right)),
                          output_channels, ty)
        ELSE st1

----------------------------------------------------------------------------
(* Timeline::process (engine/timeline.rs) *)

\* `self.tracks.iter().find(|t| t.is_soloed())`: position of the first soloed
\* track, 0 for None
soloed_track(ts) ==
    IF \E i \in 1..Len(ts) : ts[i].is_soloed
    THEN CHOOSE i \in 1..Len(ts) :
            ts[i].is_soloed /\ \A j \in 1..(i-1) : ~ts[j].is_soloed
    ELSE 0

audible_ignoring_solo(ts, i) == ~ts[i].is_muted

\* the filter closure of process: is the track at position i mixed?
audible(ts, i) ==
    IF soloed_track(ts) # 0
    THEN ts[i].id = ts[soloed_track(ts)].id
    ELSE ~ts[i].is_muted

RECURSIVE mix_tracks(_, _, _, _, _, _, _)
\* the iterator chain of one frame, from track position i on:
\* filter, filter_map(find_clip_at_playhead_position), for_each(process_sample)
mix_tracks(ts, i, st, output_channels, playhead, frame_index, ty) ==
    IF i > Len(ts) THEN st
    ELSE LET k == IF audible(ts, i)
                  THEN find_clip_at_playhead_position(ts[i], playhead) ELSE 0
             st1 == IF k = 0 \/ st.panic THEN st
                    ELSE [process_sample(ts[i].clips[k], st, ts[i].volume,
                                         output_channels, playhead, frame_index, ty)
                          EXCEPT !.mixed = @ \cup {ts[i].id}]
         IN  mix_tracks(ts, i + 1, st1, output_channels, playhead, frame_index, ty)

\* one iteration of `for frame_idx in 0..num_frames` on the render state
\* rs = [buffer, playhead, mixed, panic]; `self.playhead_position += 1` is an
\* addition of u64
process_frame(ts, rs, output_channels, frame_index, ty) ==
    LET st == mix_tracks(ts, 1, [buffer |-> rs.buffer, panic |-> FALSE, mixed |-> {}],
                         output_channels, rs.playhead, frame_index, ty)
        next == add_unsigned(rs.playhead, 1, u64_MAX)
    IN  [buffer |-> st.buffer,
         playhead |-> IF st.panic \/ next.panic THEN rs.playhead ELSE next.val,
         mixed |-> Append(rs.mixed, st.mixed),
         panic |-> st.panic \/ next.panic]

RECURSIVE process_frames(_, _, _, _, _, _)
process_frames(ts, rs, output_channels, frame_index, num_frames, ty) ==
    IF frame_index >= num_frames \/ rs.panic THEN rs
    ELSE process_frames(ts, process_frame(ts, rs, output_channels, frame_index, ty),
                        output_channels, frame_index + 1, num_frames, ty)

\* `buffer.fill(T::default())`
fill_default(buf) == [k \in 1..Len(buf) |-> 0]

\* Timeline::process on the caller's buffer buf: the whole call
process(buf, output_channels, ty) ==
    IF output_channels = 0
    THEN \* buffer.len() / samples_per_frame: attempt to divide by zero
         /\ result' = Err("Panic", 0)
         /\ buffer' = buf
         /\ mixed' = <<>>
         /\ UNCHANGED tlvars
    ELSE LET num_frames == Len(buf) \div output_channels
             rs == process_frames(tracks,
                       [buffer |-> fill_default(buf), playhead |-> playhead_position,
                        mixed |-> <<>>, panic |-> FALSE],
                       output_channels, 0, num_frames, ty)
         IN  /\ buffer' = rs.buffer
             /\ mixed' = rs.mixed
             /\ playhead_position' = rs.playhead
             /\ result' = IF rs.panic THEN Err("Panic", 1) ELSE Ok
             /\ UNCHANGED <<tracks, active_track_ids>>

\* what the caller's buffer holds before a render call: stale non-zero samples
StaleBuffer(len) == [k \in 1..len |-> 1]

----------------------------------------------------------------------------
(* Initial state: Timeline::new, AudioEngine::new *)

\* call: op = the operation, id = its TrackId argument, arg/aux = its other
\* arguments (volume percent, name, source; for process: channels and buffer
\* length), ty = the output sample type of a process call
NoCall == [op |-> "new", id |-> 0, arg |-> 0, aux |-> 0, ty |-> "-"]
Call(op, id, arg, aux) == [op |-> op, id |-> id, arg |-> arg, aux |-> aux, ty |-> "-"]
CallProcess(ty, channels, len) ==
    [op |-> "process", id |-> 0, arg |-> channels, aux |-> len, ty |-> ty]

\* the stream configuration of main.rs: two channels of f32
DefaultConfig == [ty |-> "f32", channels |-> 2]

InitBuild(checks) ==
    /\ config = DefaultConfig
    /\ tracks = <<>>
    /\ active_track_ids = {}
    /\ playhead_position = 0
    /\ buffer = <<>>
    /\ mixed = <<>>
    /\ call = NoCall
    /\ result = Ok
    /\ overflow_checks = checks
    /\ output_stream = FALSE
    /\ input_stream = FALSE
    /\ lock = "free"
    /\ poisoned = FALSE
    /\ pc_render = "idle"
    /\ pc_ctrl = "idle"
    /\ frame_idx = 0
    /\ block = <<>>

\* a fresh Timeline in a build with overflow checks (the dev and test profile)
Init == InitBuild(TRUE)

\* a fresh Timeline in either build profile
InitAnyBuild == \E checks \in BOOLEAN : InitBuild(checks)

\* TrackIds a caller passes: every live id, and two ids no track has
TrackIdArgs == (0..(Len(tracks) + 1)) \cup {tracks[i].id : i \in 1..Len(tracks)}

\* volume percents a caller passes: valid, and out of range on both sides
VolumePercents == {-50, 50, 100, 150}

\* the volume percents of the mixing specification: half and full volume
MixPercents == {50, 100}

\* the same, and an f32 NaN
MixPercentsF32 == MixPercents \cup {NaN}

\* the sources of the mixing specification: mono of two and of four frames,
\* and stereo of two frames
MixSources == {1, 10, 12}

\* the sources of the duration specification: mono of two frames, stereo of
\* one and of two frames, and a file that does not open
DurSources == {1, 2, 3, 12}

\* the files of SpecFrame: a mono file and one that does not open
FrameSources == {1, 3}

\* the files of SpecDecode: readable ones, one that does not open, one of an
\* unsupported depth, and two with samples that cannot be read
DecodeSources == {1, 3, 4, 15, 16}

\* the files of SpecClips: those that fail to open, to decode or to
\* resample, and mono, stereo, three-channel, resampled and empty ones
ClipSources == {1, 2, 3, 4, 6, 7, 8, 9, 11, 12, 13, 14}

\* the same, and the boundary 0 and an f32 NaN
VolumePercentsF32 == VolumePercents \cup {0, NaN}

\* names a caller passes
TrackNames == {1}

\* seek targets in units of 1/Den seconds: negative, 3/8 s, 1/2 s
SeekSeconds == {-1, 3, 4}

\* seek targets of the render specification: a NaN, and 2^64 s or more
RenderSeekSeconds == {NaN, F64Huge}

\* a panic unwinds the thread that owns the Timeline: nothing runs after it
Running == result.tag # "Panic"

----------------------------------------------------------------------------
(* The operations as steps of a single-threaded caller                     *)

\* buffer and mixed describe the last call when it was a render call
NoRender == buffer' = <<>> /\ mixed' = <<>>

others == <<overflow_checks, config, output_stream, input_stream, lock, poisoned,
            pc_render, pc_ctrl, frame_idx, block>>

NewTrack(n) ==
    /\ Running
    /\ Len(tracks) < n
    /\ new_track
    /\ call' = Call("new_track", 0, 0, 0)
    /\ NoRender
    /\ UNCHANGED others

Mute ==
    /\ Running
    /\ \E id \in TrackIdArgs :
        /\ mute(id)
        /\ call' = Call("mute", id, 0, 0)
    /\ NoRender
    /\ UNCHANGED others

Unmute ==
    /\ Running
    /\ \E id \in TrackIdArgs :
        /\ unmute(id)
        /\ call' = Call("unmute", id, 0, 0)
    /\ NoRender
    /\ UNCHANGED others

Solo ==
    /\ Running
    /\ \E id \in TrackIdArgs :
        /\ solo(id)
        /\ call' = Call("solo", id, 0, 0)
    /\ NoRender
    /\ UNCHANGED others

Unsolo ==
    /\ Running
    /\ \E id \in TrackIdArgs :
        /\ unsolo(id)
        /\ call' = Call("unsolo", id, 0, 0)
    /\ NoRender
    /\ UNCHANGED others

IsMuted ==
    /\ Running
    /\ \E id \in TrackIdArgs :
        /\ is_muted(id)
        /\ call' = Call("is_muted", id, 0, 0)
    /\ NoRender
    /\ UNCHANGED others

IsSoloed ==
    /\ Running
    /\ \E id \in TrackIdArgs :
        /\ is_soloed(id)
        /\ call' = Call("is_soloed", id, 0, 0)
    /\ NoRender
    /\ UNCHANGED others

\* add_clip of a source of srcs is offered while the track holds fewer than
\* max clips, and for every id that no track has
AddClip(max, srcs) ==
    /\ Running
    /\ \E id \in TrackIdArgs, n \in srcs :
        /\ LET i == get_mut_track(tracks, id)
           IN  i # 0 => Len(tracks[i].clips) < max
        /\ add_clip(id, Sources[n])
        /\ call' = Call("add_clip", id, n, 0)
    /\ NoRender
    /\ UNCHANGED others

SetVolume(percents) ==
    /\ Running
    /\ \E id \in TrackIdArgs, percent \in percents :
        /\ set_volume(id, percent)
        /\ call' = Call("set_volume", id, percent, 0)
    /\ NoRender
    /\ UNCHANGED others

SetTrackName ==
    /\ Running
    /\ \E id \in TrackIdArgs, name \in TrackNames :
        /\ set_track_name(id, name)
        /\ call' = Call("set_track_name", id, name, 0)
    /\ NoRender
    /\ UNCHANGED others

ResetPlayhead ==
    /\ Running
    /\ reset_playhead
    /\ call' = Call("reset_playhead", 0, 0, 0)
    /\ NoRender
    /\ UNCHANGED others

SetPlayheadSeconds(seeks) ==
    /\ Running
    /\ \E seconds \in seeks :
        /\ set_playhead_seconds(seconds)
        /\ call' = Call("set_playhead_seconds", 0, seconds, 0)
    /\ NoRender
    /\ UNCHANGED others

\* one render call on a caller's buffer of any length up to frames frames
\* of channels channels, for any output type and channel count, offered
\* while the playhead is below playheads or at u64::MAX
Process(playheads, frames, channels) ==
    /\ Running
    /\ playhead_position < playheads \/ playhead_position = u64_MAX
    /\ \E ty \in SampleTypes, output_channels \in 0..channels,
          len \in 0..(frames * channels) :
        /\ process(StaleBuffer(len), output_channels, ty)
        /\ call' = CallProcess(ty, output_channels, len)
    /\ UNCHANGED others

(* A caller that holds `timeline.get_mut_track(id)` and calls a method of   *)
(* Track on it: the track changes, the Timeline's audible set does not.    *)

\* `timeline.get_mut_track(id).unwrap().mute()`
TrackMute ==
    /\ Running
    /\ \E id \in TrackIdArgs :
        LET i == get_mut_track(tracks, id) IN
        /\ i # 0
        /\ tracks' = [tracks EXCEPT ![i] = Track_mute(@)]
        /\ call' = Call("Track::mute", id, 0, 0)
    /\ result' = Ok
    /\ NoRender
    /\ UNCHANGED <<active_track_ids, playhead_position, others>>

\* `timeline.get_mut_track(id).unwrap().unmute()`
TrackUnmute ==
    /\ Running
    /\ \E id \in TrackIdArgs :
        LET i == get_mut_track(tracks, id) IN
        /\ i # 0
        /\ tracks' = [tracks EXCEPT ![i] = Track_unmute(@)]
        /\ call' = Call("Track::unmute", id, 0, 0)
    /\ result' = Ok
    /\ NoRender
    /\ UNCHANGED <<active_track_ids, playhead_position, others>>

\* `timeline.get_mut_track(id).unwrap().solo()`
TrackSolo ==
    /\ Running
    /\ \E id \in TrackIdArgs :
        LET i == get_mut_track(tracks, id) IN
        /\ i # 0
        /\ tracks' = [tracks EXCEPT ![i] = Track_solo(@)]
        /\ call' = Call("Track::solo", id, 0, 0)
    /\ result' = Ok
    /\ NoRender
    /\ UNCHANGED <<active_track_ids, playhead_position, others>>

\* `timeline.get_mut_track(id).unwrap().unsolo()`
TrackUnsolo ==
    /\ Running
    /\ \E id \in TrackIdArgs :
        LET i == get_mut_track(tracks, id) IN
        /\ i # 0
        /\ tracks' = [tracks EXCEPT ![i] = Track_unsolo(@)]
        /\ call' = Call("Track::unsolo", id, 0, 0)
    /\ result' = Ok
    /\ NoRender
    /\ UNCHANGED <<active_track_ids, playhead_position, others>>

\* `timeline.get_mut_track(id).unwrap().toggle_mute()`
TrackToggleMute ==
    /\ Running
    /\ \E id \in TrackIdArgs :
        LET i == get_mut_track(tracks, id) IN
        /\ i # 0
        /\ tracks' = [tracks EXCEPT ![i] = Track_toggle_mute(@)]
        /\ call' = Call("Track::toggle_mute", id, 0, 0)
    /\ result' = Ok
    /\ NoRender
    /\ UNCHANGED <<active_track_ids, playhead_position, others>>

\* `timeline.get_mut_track(id).unwrap().toggle_solo()`
TrackToggleSolo ==
    /\ Running
    /\ \E id \in TrackIdArgs :
        LET i == get_mut_track(tracks, id) IN
        /\ i # 0
        /\ tracks' = [tracks EXCEPT ![i] = Track_toggle_solo(@)]
        /\ call' = Call("Track::toggle_solo", id, 0, 0)
    /\ result' = Ok
    /\ NoRender
    /\ UNCHANGED <<active_track_ids, playhead_position, others>>

\* `timeline.get_mut_track(id).unwrap().id = TrackId(new_id)`
TrackSetId ==
    /\ Running
    /\ \E id \in TrackIdArgs, new_id \in (1..MaxCtlTracks) \cup {u32_MAX} :
        LET i == get_mut_track(tracks, id) IN
        /\ i # 0
        /\ tracks' = [tracks EXCEPT ![i] = Track_set_id(@, new_id)]
        /\ call' = Call("Track::id", id, new_id, 0)
    /\ result' = Ok
    /\ NoRender
    /\ UNCHANGED <<active_track_ids, playhead_position, others>>

----------------------------------------------------------------------------
(* SpecFlags: the mute/solo state machine, any sequence of new_track,      *)
(* mute, unmute, solo, unsolo, is_muted and is_soloed.                     *)

NextFlags ==
    \/ NewTrack(MaxTracks)
    \/ Mute
    \/ Unmute
    \/ Solo
    \/ Unsolo
    \/ IsMuted
    \/ IsSoloed

SpecFlags == Init /\ [][NextFlags]_vars

(* SpecTrack: the mute/solo operations of the Timeline interleaved with    *)
(* the methods and the pub id field of Track, reached through              *)
(* Timeline::get_mut_track, ids up to u32::MAX, in either build profile.   *)

NextTrack ==
    \/ NewTrack(MaxCtlTracks)
    \/ Mute
    \/ Unmute
    \/ Solo
    \/ Unsolo
    \/ TrackMute
    \/ TrackUnmute
    \/ TrackSolo
    \/ TrackUnsolo
    \/ TrackToggleMute
    \/ TrackToggleSolo
    \/ TrackSetId

SpecTrack == InitAnyBuild /\ [][NextTrack]_vars

(* Spec: the whole control surface on one thread: tracks, clips, volumes,  *)
(* names, mute/solo state and seeks, with live and dead TrackIds.          *)

Next ==
    \/ NewTrack(MaxCtlTracks)
    \/ AddClip(MaxClips, BasicSources)
    \/ SetVolume(VolumePercents)
    \/ SetTrackName
    \/ Mute
    \/ Unmute
    \/ Solo
    \/ Unsolo
    \/ IsMuted
    \/ IsSoloed
    \/ SetPlayheadSeconds(SeekSeconds)
    \/ ResetPlayhead

Spec == Init /\ [][Next]_vars

(* SpecFrame: the control operations that do not seek, interleaved with    *)
(* render calls.                                                           *)

NextFrame ==
    \/ NewTrack(MaxCtlTracks)
    \/ AddClip(MaxClips, FrameSources)
    \/ SetVolume(MixPercents)
    \/ SetTrackName
    \/ Mute
    \/ Unmute
    \/ Solo
    \/ Unsolo
    \/ Process(MaxMixPlayhead, MaxFrames, MaxChannels)

SpecFrame == Init /\ [][NextFrame]_vars

(* SpecRender: tracks with clips and mute/solo state, rendered by process  *)
(* calls of every output type, channel count and buffer length, from the   *)
(* start, after a reset and after a seek to the far end of u64, in either  *)
(* build profile.                                                          *)

NextRender ==
    \/ NewTrack(MaxCtlTracks)
    \/ AddClip(MaxClips, BasicSources)
    \/ Mute
    \/ Unmute
    \/ Solo
    \/ Unsolo
    \/ ResetPlayhead
    \/ SetPlayheadSeconds(RenderSeekSeconds)
    \/ Process(MaxPlayhead, MaxFrames, MaxChannels)

SpecRender == InitAnyBuild /\ [][NextRender]_vars

(* SpecClips: clip placement and volumes: up to MaxTrackClips clips from    *)
(* every kind of source (mono, stereo, three channels, resampled, failing   *)
(* to open, decode or resample) appended to a track, with every kind of     *)
(* volume percent, mute state and seeks.                                    *)

NextClips ==
    \/ NewTrack(MaxClipTracks)
    \/ AddClip(MaxTrackClips, ClipSources)
    \/ SetVolume(VolumePercentsF32)
    \/ Mute
    \/ Unmute
    \/ SetPlayheadSeconds(SeekSeconds)

SpecClips == Init /\ [][NextClips]_vars

(* SpecDecode: clips from files that decode, fail to decode, or hold        *)
(* samples that cannot be read, appended to a track and muted or unmuted.   *)

NextDecode ==
    \/ NewTrack(MaxClipTracks)
    \/ AddClip(MaxDurClips, DecodeSources)
    \/ Mute
    \/ Unmute

SpecDecode == Init /\ [][NextDecode]_vars

(* SpecDuration: up to MaxCtlTracks tracks of up to MaxDurClips clips each, *)
(* with mute, unmute and solo operations in between.                       *)

NextDuration ==
    \/ NewTrack(MaxCtlTracks)
    \/ AddClip(MaxDurClips, DurSources)
    \/ Mute
    \/ Unmute
    \/ Solo

SpecDuration == Init /\ [][NextDuration]_vars

(* SpecMix: one track with up to MaxMixClips mono and stereo clips at half, *)
(* full or NaN volume, rendered in blocks of up to MaxMixFrames frames to 1 *)
(* to MaxMixChannels output channels of every sample type.                  *)

NextMix ==
    \/ NewTrack(MaxClipTracks)
    \/ AddClip(MaxMixClips, MixSources)
    \/ SetVolume(MixPercentsF32)
    \/ ResetPlayhead
    \/ Process(MaxMixPlayhead, MaxMixFrames, MaxMixChannels)

SpecMix == Init /\ [][NextMix]_vars

(* SpecUtils: the sample conversions and the (de)interleaving helpers of    *)
(* engine/utils.rs and Clip::decode_samples_to_f64, each applied to inputs  *)
(* of every kind; call holds the input and result the value returned.       *)

Scales == {"I8", "I16", "I24", "I32", "F32"}

\* raw samples read from a file of the scale's format: both ends of the
\* integer range and values inside it; for floats (in units of 1/Den) values
\* inside and outside [-1, 1] and a NaN
RawSamples(scale) ==
    IF scale = "F32"
    THEN {NaN, -2 * Den, -Den - 1, -Den, -(Den \div 2), 0, Den \div 4, Den, Den + 1}
    ELSE LET m == ScaleMax(scale)
         IN  {-m - 1, -m, -(m \div 2), -1, 0, 1, m \div 2, m - 1, m}

SourceFormats == {"Int", "Float"}

SourceBits == {8, 12, 16, 24, 32, 64}

\* the largest raw sample of a supported integer format, Den (1.0) otherwise
RawMax(format, bits) ==
    IF format = "Int" /\ bits \in {8, 16, 24, 32}
    THEN CASE bits = 8 -> ScaleMax("I8")
           [] bits = 16 -> ScaleMax("I16")
           [] bits = 24 -> ScaleMax("I24")
           [] bits = 32 -> ScaleMax("I32")
    ELSE Den

\* sample data of a file: empty, silence, and the extremes of its format
FileSamples(format, bits) ==
    LET m == RawMax(format, bits)
    IN  {<<>>, <<0>>, <<m, -m - 1>>, <<-m, 0, m>>}

UtilSamples == {0, 1}

\* interleaved buffers of up to MaxUtilLen samples
Buffers == UNION {[1..n -> UtilSamples] : n \in 0..MaxUtilLen}

\* lists of up to MaxUtilChannels channels of up to MaxChannelLen samples,
\* of equal and of unequal lengths
ChannelLists ==
    LET Channels == UNION {[1..n -> UtilSamples] : n \in 0..MaxChannelLen}
    IN  UNION {[1..c -> Channels] : c \in 0..MaxUtilChannels}

ConvertSample ==
    /\ \E scale \in Scales : \E v \in RawSamples(scale) :
        /\ call' = Call("convert_sample_to_f64", 0, v, scale)
        /\ result' = OkVal(convert_sample_to_f64(v, scale))
    /\ NoRender
    /\ UNCHANGED <<tlvars, others>>

DecodeSamples ==
    /\ \E format \in SourceFormats, bits \in SourceBits :
        \E samples \in FileSamples(format, bits) :
            LET dec == decode_samples_to_f64(
                           Source(TRUE, format, bits, 1, sample_rate, samples, NoFilter))
            IN  /\ call' = Call("decode_samples_to_f64", 0,
                                [sample_format |-> format, bits_per_sample |-> bits],
                                samples)
                /\ result' = IF dec.tag = "Ok" THEN OkVal(dec.samples)
                                              ELSE Err(dec.tag, dec.val)
    /\ NoRender
    /\ UNCHANGED <<tlvars, others>>

DeinterleaveSamples ==
    /\ \E samples \in Buffers, num_channels \in 0..MaxUtilChannels :
        /\ call' = Call("deinterleave_samples", 0, samples, num_channels)
        /\ result' = OkVal(Utils_deinterleave_samples(samples, num_channels))
    /\ NoRender
    /\ UNCHANGED <<tlvars, others>>

InterleaveSamples ==
    /\ \E channels \in ChannelLists :
        /\ call' = Call("interleave_samples", 0, channels, 0)
        /\ result' = OkVal(Utils_interleave_samples(channels))
    /\ NoRender
    /\ UNCHANGED <<tlvars, others>>

\* the sample rates Resampler::resample is called with
Rates == {sample_rate, 2 * sample_rate}

\* what the sinc filter can return for num_channels channels: an error of
\* SincFixedIn::new or of process, or one output wave per channel
Filters(num_channels) ==
    {[tag |-> "ResamplerConstructionError", waves |-> <<>>],
     [tag |-> "ResampleError", waves |-> <<>>],
     [tag |-> "Ok", waves |-> [c \in 1..num_channels |-> <<c>>]]}

ResampleSamples ==
    /\ \E samples \in Buffers, new_sample_rate \in Rates, old_sample_rate \in Rates,
          num_channels \in 0..MaxChannels :
        \E filter \in Filters(num_channels) :
            LET res == Resampler_resample(samples, new_sample_rate, old_sample_rate,
                                          num_channels, filter)
            IN  /\ call' = Call("resample", 0,
                               [samples |-> samples,
                                new_sample_rate |-> new_sample_rate,
                                old_sample_rate |-> old_sample_rate,
                                num_channels |-> num_channels],
                               filter)
                /\ result' = [tag |-> res.tag, val |-> res.data, sinc |-> res.sinc]
    /\ NoRender
    /\ UNCHANGED <<tlvars, others>>

ClipFromPath ==
    /\ \E n \in 1..Len(Sources), start_time_in_samples \in 0..1 :
        /\ call' = Call("from_path", n, start_time_in_samples, sample_rate)
        /\ result' = Clip_from_path(Sources[n], start_time_in_samples, sample_rate)
    /\ NoRender
    /\ UNCHANGED <<tlvars, others>>

NextUtils ==
    \/ ConvertSample
    \/ DecodeSamples
    \/ DeinterleaveSamples
    \/ InterleaveSamples
    \/ ResampleSamples
    \/ ClipFromPath

SpecUtils == Init /\ [][NextUtils]_vars

----------------------------------------------------------------------------
(* AudioEngine (engine/audio_engine.rs): the Timeline behind one Mutex,    *)
(* shared by the control thread and the output callback that the audio     *)
(* host invokes while an output stream exists.                             *)
(*                                                                         *)
(* Dropping the cpal Stream returns once no callback is running and none   *)
(* starts afterwards.  A thread that panics while it holds the Mutex       *)
(* poisons it; lock() then returns Err to every later caller.              *)

\* the configurations AudioEngine::new is given: (sample_format, channels)
EngineConfigs ==
    {[ty |-> "f32", channels |-> 2], [ty |-> "i16", channels |-> 1]}

InitEngine ==
    /\ \E c \in EngineConfigs : config = c
    /\ tracks = <<>>
    /\ active_track_ids = {}
    /\ playhead_position = 0
    /\ buffer = <<>>
    /\ mixed = <<>>
    /\ call = NoCall
    /\ result = Ok
    /\ overflow_checks = TRUE
    /\ output_stream = FALSE
    /\ input_stream = FALSE
    /\ lock = "free"
    /\ poisoned = FALSE
    /\ pc_render = "idle"
    /\ pc_ctrl = "idle"
    /\ frame_idx = 0
    /\ block = <<>>

Mutex_lock_unguarded(owner) == lock' = owner

\* Mutex::lock returning Ok: blocks until the Mutex is free, then owns it
Mutex_lock(owner) ==
    /\ lock = "free"
    /\ ~poisoned
    /\ lock' = owner

\* Mutex::lock returning Err(PoisonError), which `if let Ok(..)` skips
Mutex_lock_err ==
    /\ lock = "free"
    /\ poisoned
    /\ UNCHANGED lock

\* AudioEngine::start_playing: builds the stream, plays it and stores it
StartPlaying ==
    /\ pc_ctrl = "idle"
    /\ pc_render \in {"idle", "dead"}
    /\ output_stream' = TRUE
    /\ pc_render' = "idle"
    /\ UNCHANGED <<tlvars, rendervars, call, result, overflow_checks, config,
                   input_stream, lock, poisoned, pc_ctrl, frame_idx, block>>

\* AudioEngine::stop_playing, `self.output_stream = None`: the stream is
\* dropped, which waits for a running callback to return
StopPlayingDrop ==
    /\ pc_ctrl = "idle"
    /\ pc_render \in {"idle", "dead"}
    /\ output_stream' = FALSE
    /\ pc_ctrl' = "stop_lock"
    /\ UNCHANGED <<tlvars, rendervars, call, result, overflow_checks, config,
                   input_stream, lock, poisoned, pc_render, frame_idx, block>>

\* AudioEngine::stop_playing, `if let Ok(mut timeline) = self.timeline.lock()
\* { timeline.reset_playhead(); }`, the guard dropped at the end of the block
StopPlayingReset ==
    /\ pc_ctrl = "stop_lock"
    /\ lock = "free"
    /\ IF poisoned
       THEN UNCHANGED <<tlvars, result>>
       ELSE reset_playhead
    /\ pc_ctrl' = "idle"
    /\ call' = Call("stop_playing", 0, 0, 0)
    /\ UNCHANGED <<rendervars, overflow_checks, config, output_stream, input_stream, lock, poisoned,
                   pc_render, frame_idx, block>>

\* AudioEngine::start_recording: only SampleFormat::F32 builds an input
\* stream (its callback is empty), which is played and stored; every other
\* format returns Err(StreamConfigNotSupported) and stores nothing
StartRecording ==
    /\ pc_ctrl = "idle"
    /\ input_stream' = IF config.ty = "f32" THEN TRUE ELSE input_stream
    /\ UNCHANGED <<tlvars, rendervars, call, result, overflow_checks, config,
                   output_stream, lock, poisoned, pc_render, pc_ctrl, frame_idx, block>>

\* AudioEngine::stop_recording, `self.input_stream = None`: the output stream
\* stays as it is
StopRecordingDrop ==
    /\ pc_ctrl = "idle"
    /\ input_stream' = FALSE
    /\ pc_ctrl' = "stop_rec_lock"
    /\ UNCHANGED <<tlvars, rendervars, call, result, overflow_checks, config,
                   output_stream, lock, poisoned, pc_render, frame_idx, block>>

\* AudioEngine::stop_recording, `if let Ok(mut timeline) = self.timeline.lock()
\* { timeline.reset_playhead(); }`, the guard dropped at the end of the block
StopRecordingReset ==
    /\ pc_ctrl = "stop_rec_lock"
    /\ lock = "free"
    /\ IF poisoned
       THEN UNCHANGED <<tlvars, result>>
       ELSE reset_playhead
    /\ pc_ctrl' = "idle"
    /\ call' = Call("stop_recording", 0, 0, 0)
    /\ UNCHANGED <<rendervars, overflow_checks, config, output_stream, input_stream,
                   lock, poisoned, pc_render, frame_idx, block>>

\* the control thread takes the Timeline: `engine.timeline().lock()`
CtrlLock ==
    /\ pc_ctrl = "idle"
    /\ Mutex_lock("ctrl")
    /\ pc_ctrl' = "locked"
    /\ UNCHANGED <<tlvars, rendervars, call, result, overflow_checks, config,
                   output_stream, input_stream, poisoned, pc_render, frame_idx, block>>

\* one control operation that edits the tracks and leaves the playhead alone,
\* on the locked Timeline
CtrlEdit ==
    /\ pc_ctrl = "locked"
    /\ \/ /\ Len(tracks) < MaxCtlTracks
          /\ new_track
          /\ call' = Call("new_track", 0, 0, 0)
       \/ \E id \in TrackIdArgs, n \in BasicSources :
            /\ LET i == get_mut_track(tracks, id)
               IN  i # 0 => Len(tracks[i].clips) < MaxClips
            /\ add_clip(id, Sources[n])
            /\ call' = Call("add_clip", id, n, 0)
       \/ \E id \in TrackIdArgs :
            /\ mute(id)
            /\ call' = Call("mute", id, 0, 0)
       \/ \E id \in TrackIdArgs :
            /\ unmute(id)
            /\ call' = Call("unmute", id, 0, 0)
    /\ pc_ctrl' = "done"
    /\ UNCHANGED <<rendervars, overflow_checks, config, output_stream, input_stream, lock, poisoned,
                   pc_render, frame_idx, block>>

\* one control operation on the locked Timeline
CtrlOp ==
    /\ pc_ctrl = "locked"
    /\ \/ /\ Len(tracks) < MaxCtlTracks
          /\ new_track
          /\ call' = Call("new_track", 0, 0, 0)
       \/ \E id \in TrackIdArgs, n \in BasicSources :
            /\ LET i == get_mut_track(tracks, id)
               IN  i # 0 => Len(tracks[i].clips) < MaxClips
            /\ add_clip(id, Sources[n])
            /\ call' = Call("add_clip", id, n, 0)
       \/ \E id \in TrackIdArgs, percent \in VolumePercents :
            /\ set_volume(id, percent)
            /\ call' = Call("set_volume", id, percent, 0)
       \/ \E id \in TrackIdArgs :
            /\ mute(id)
            /\ call' = Call("mute", id, 0, 0)
       \/ \E id \in TrackIdArgs :
            /\ unmute(id)
            /\ call' = Call("unmute", id, 0, 0)
       \/ \E id \in TrackIdArgs :
            /\ solo(id)
            /\ call' = Call("solo", id, 0, 0)
       \/ \E id \in TrackIdArgs :
            /\ unsolo(id)
            /\ call' = Call("unsolo", id, 0, 0)
       \/ /\ reset_playhead
          /\ call' = Call("reset_playhead", 0, 0, 0)
    /\ pc_ctrl' = "done"
    /\ UNCHANGED <<rendervars, overflow_checks, config, output_stream, input_stream, lock, poisoned,
                   pc_render, frame_idx, block>>

\* a control thread that keeps its MutexGuard alive after the operation
CtrlUnlock_leaking ==
    /\ pc_ctrl = "done"
    /\ pc_ctrl' = "idle"
    /\ call' = NoCall
    /\ result' = Ok
    /\ UNCHANGED <<tlvars, rendervars, overflow_checks, config, output_stream, input_stream,
                   lock, poisoned, pc_render, frame_idx, block>>

\* the control thread drops its MutexGuard and consumes the result
CtrlUnlock ==
    /\ pc_ctrl = "done"
    /\ lock' = "free"
    /\ pc_ctrl' = "idle"
    /\ call' = NoCall
    /\ result' = Ok
    /\ UNCHANGED <<tlvars, rendervars, overflow_checks, config, output_stream, input_stream,
                   poisoned, pc_render, frame_idx, block>>

\* the host invokes the output callback with its data buffer of MaxFrames
\* frames, while the stream exists; the model follows the playhead over
\* the blocks that start below MaxPlayhead + MaxFrames
CallbackStart ==
    /\ output_stream
    /\ pc_render = "idle"
    /\ playhead_position < MaxPlayhead + MaxFrames
    /\ pc_render' = "lock"
    /\ buffer' = StaleBuffer(MaxFrames * config.channels)
    /\ mixed' = <<>>
    /\ UNCHANGED <<tlvars, call, result, overflow_checks, config, output_stream, input_stream, lock,
                   poisoned, pc_ctrl, frame_idx, block>>

\* create_output_callback!: `if let Ok(mut timeline) = $timeline.lock()`,
\* then the start of process: num_frames and buffer.fill(T::default())
CallbackLock ==
    /\ pc_render = "lock"
    /\ Mutex_lock("render")
    /\ pc_render' = "frames"
    /\ frame_idx' = 0
    /\ buffer' = fill_default(buffer)
    /\ block' = <<tracks, active_track_ids, playhead_position>>
    /\ UNCHANGED <<tlvars, mixed, call, result, overflow_checks, config, output_stream, input_stream,
                   poisoned, pc_ctrl>>

\* create_output_callback! when lock() returns Err: the callback returns
\* without rendering
CallbackLockErr ==
    /\ pc_render = "lock"
    /\ Mutex_lock_err
    /\ pc_render' = "idle"
    /\ buffer' = <<>>
    /\ UNCHANGED <<tlvars, mixed, call, result, overflow_checks, config, output_stream, input_stream,
                   poisoned, pc_ctrl, frame_idx, block>>

\* one iteration of the frame loop of process inside the callback; a panic
\* unwinds the callback, which drops the guard and poisons the Mutex
CallbackFrame ==
    /\ pc_render = "frames"
    /\ frame_idx < Len(buffer) \div config.channels
    /\ \E rs \in {process_frame(tracks,
                     [buffer |-> buffer, playhead |-> playhead_position,
                      mixed |-> mixed, panic |-> FALSE],
                     config.channels, frame_idx, config.ty)} :
           /\ buffer' = rs.buffer
           /\ mixed' = rs.mixed
           /\ playhead_position' = rs.playhead
           /\ IF rs.panic
              THEN /\ pc_render' = "dead"
                   /\ poisoned' = TRUE
                   /\ lock' = "free"
                   /\ UNCHANGED frame_idx
              ELSE /\ pc_render' = "frames"
                   /\ frame_idx' = frame_idx + 1
                   /\ UNCHANGED <<poisoned, lock>>
    /\ UNCHANGED <<tracks, active_track_ids, call, result, overflow_checks, config,
                   output_stream, input_stream, pc_ctrl, block>>

\* process returns, the callback drops its guard and hands the buffer back
CallbackReturn ==
    /\ pc_render = "frames"
    /\ frame_idx >= Len(buffer) \div config.channels
    /\ lock' = "free"
    /\ pc_render' = "idle"
    /\ buffer' = <<>>
    /\ mixed' = <<>>
    /\ block' = <<>>
    /\ frame_idx' = 0
    /\ UNCHANGED <<tlvars, call, result, overflow_checks, config, output_stream, input_stream,
                   poisoned, pc_ctrl>>

NextEngine ==
    \/ StartPlaying
    \/ StopPlayingDrop
    \/ StopPlayingReset
    \/ StartRecording
    \/ StopRecordingDrop
    \/ StopRecordingReset
    \/ CtrlLock
    \/ CtrlOp
    \/ CtrlUnlock
    \/ CallbackStart
    \/ CallbackLock
    \/ CallbackLockErr
    \/ CallbackFrame
    \/ CallbackReturn

SpecEngine == InitEngine /\ [][NextEngine]_vars

(* SpecEngineFair: playing and recording started and stopped at any time,   *)
(* with a control thread that edits the tracks, where a control operation  *)
(* on the locked Timeline returns and drops its guard, a running callback  *)
(* goes on, and the Mutex is granted to a thread that keeps asking for it. *)

NextEngineFair ==
    \/ StartPlaying
    \/ StopPlayingDrop
    \/ StopPlayingReset
    \/ StartRecording
    \/ StopRecordingDrop
    \/ StopRecordingReset
    \/ CtrlLock
    \/ CtrlEdit
    \/ CtrlUnlock
    \/ CallbackStart
    \/ CallbackLock
    \/ CallbackLockErr
    \/ CallbackFrame
    \/ CallbackReturn

SpecEngineFair ==
    /\ InitEngine
    /\ [][NextEngineFair]_vars
    /\ WF_vars(CtrlEdit)
    /\ WF_vars(CtrlUnlock)
    /\ SF_vars(StopPlayingReset \/ StopRecordingReset)
    /\ SF_vars(CallbackLock)
    /\ WF_vars(CallbackLockErr)
    /\ WF_vars(CallbackFrame)
    /\ WF_vars(CallbackReturn)

(* SpecPlayback: playback that is started and never stopped, with a control *)
(* thread that edits the tracks and never moves the playhead.  The host     *)
(* keeps invoking the callback, a running callback goes on, the Mutex is    *)
(* granted to a callback that keeps asking, and a control operation         *)
(* returns.                                                                 *)

NextPlayback ==
    \/ StartPlaying
    \/ CtrlLock
    \/ CtrlEdit
    \/ CtrlUnlock
    \/ CallbackStart
    \/ CallbackLock
    \/ CallbackLockErr
    \/ CallbackFrame
    \/ CallbackReturn

SpecPlayback ==
    /\ InitEngine
    /\ [][NextPlayback]_vars
    /\ SF_vars(StartPlaying)
    /\ WF_vars(CtrlEdit)
    /\ WF_vars(CtrlUnlock)
    /\ WF_vars(CallbackStart)
    /\ SF_vars(CallbackLock)
    /\ WF_vars(CallbackLockErr)
    /\ WF_vars(CallbackFrame)
    /\ WF_vars(CallbackReturn)

----------------------------------------------------------------------------
(* Claims about the mute/solo state machine, checked under SpecFlags *)

SoloedIds == {tracks[i].id : i \in {j \in 1..Len(tracks) : tracks[j].is_soloed}}
UnmutedIds == {tracks[i].id : i \in {j \in 1..Len(tracks) : ~tracks[j].is_muted}}

\* C1: the cached audible set is exactly the set of soloed tracks when some
\* track is soloed, and exactly the set of non-muted tracks otherwise.
C1_AudibleSetExact ==
    active_track_ids = IF SoloedIds # {} THEN SoloedIds ELSE UnmutedIds

\* C2: after mute(t) returns Ok, track t is muted and not soloed, whatever
\* its flags were before the call.
C2_MuteWinsOverSolo ==
    (call.op = "mute" /\ result.tag = "Ok") =>
        \A i \in 1..Len(tracks) :
            tracks[i].id = call.id =>
                tracks[i].is_muted /\ ~tracks[i].is_soloed

\* C3: after solo(t) returns Ok, t is soloed, every other track is muted and
\* not soloed, and t's own muted flag is what it was before the call.
C3_SoloForcesOthers ==
    [][(call'.op = "solo" /\ result'.tag = "Ok") =>
        /\ Len(tracks') = Len(tracks)
        /\ \A i \in 1..Len(tracks') :
            IF tracks'[i].id = call'.id
            THEN /\ tracks'[i].is_soloed
                 /\ tracks'[i].is_muted = tracks[i].is_muted
            ELSE /\ ~tracks'[i].is_soloed
                 /\ tracks'[i].is_muted]_vars

\* C4: soloing is exclusive: at most one track is soloed in any state.
C4_SoloExclusive ==
    Cardinality({i \in 1..Len(tracks) : tracks[i].is_soloed}) <= 1

\* solo(2) has acted on a timeline of three tracks: track 2 holds the solo
\* exclusively and the two other tracks were muted by it.
C4_Witness ==
    /\ Len(tracks) = 3
    /\ call.op = "solo" /\ call.id = 2 /\ result.tag = "Ok"
    /\ tracks[2].is_soloed
    /\ tracks[1].is_muted /\ ~tracks[1].is_soloed
    /\ tracks[3].is_muted /\ ~tracks[3].is_soloed

----------------------------------------------------------------------------
(* Claims about rendering, checked under SpecRender *)

\* the tracks the claims call audible: the soloed ones when any track is
\* soloed, the non-muted ones otherwise
ClaimAudibleIds == IF SoloedIds # {} THEN SoloedIds ELSE UnmutedIds

\* the track has a clip whose [start, start + frames) holds playhead p
HasClipAt(track, p) ==
    \E k \in 1..Len(track.clips) :
        /\ track.clips[k].start_time_in_samples <= p
        /\ p < track.clips[k].start_time_in_samples
                 + Len(track.clips[k].data) \div track.clips[k].channel

\* the playhead at which frame f (1-based) of the last process call was mixed,
\* for a call that returned
FramePlayhead(f) == playhead_position - Len(mixed) + (f - 1)

\* C5: for every rendered frame, process mixes clips only from the soloed
\* track when some track is soloed (whatever the muted flags are), and
\* otherwise from exactly the non-muted tracks; no other track contributes.
C5_MixesOnlyAudible ==
    (call.op = "process" /\ result.tag = "Ok") =>
        \A f \in 1..Len(mixed) :
            mixed[f] = {tracks[i].id : i \in {j \in 1..Len(tracks) :
                            /\ tracks[j].id \in ClaimAudibleIds
                            /\ HasClipAt(tracks[j], FramePlayhead(f))}}

\* a frame was rendered in which the soloed track 1, itself marked muted,
\* was mixed, and the unmuted track 2 with a clip at that frame was not
C5_Witness ==
    /\ call.op = "process" /\ result.tag = "Ok"
    /\ Len(tracks) = 2 /\ Len(mixed) >= 1
    /\ tracks[1].is_soloed /\ tracks[1].is_muted
    /\ ~tracks[2].is_muted
    /\ HasClipAt(tracks[2], FramePlayhead(1))
    /\ mixed[1] = {1}
    /\ \E k \in 1..Len(buffer) : buffer[k] # 0

\* the value track contributes to channel ch of a frame at playhead p, for
\* output_channels channels of type ty, 0 when it has no clip there
ClaimContribution(track, p, ch, output_channels, ty) ==
    IF ~HasClipAt(track, p) THEN 0
    ELSE LET c == track.clips[find_clip_at_playhead_position(track, p)]
             o == p - c.start_time_in_samples
             scaled(x) == mul_f64(x, track.volume)
         IN  IF c.channel = 1
             THEN from_f64_sample(ty, scaled(c.data[o + 1]))
             ELSE IF c.channel = 2
             THEN IF output_channels = 1
                  THEN from_f64_sample(ty,
                           scaled(add_f64(c.data[2 * o + 1], c.data[2 * o + 2])))
                  ELSE IF ch = 0 THEN from_f64_sample(ty, scaled(c.data[2 * o + 1]))
                  ELSE IF ch = 1 THEN from_f64_sample(ty, scaled(c.data[2 * o + 2]))
                  ELSE 0
             ELSE 0

\* a + b when it is representable in ty; fits = FALSE otherwise
ClaimAdd(acc, b, ty) ==
    IF ~acc.fits THEN acc
    ELSE IF IsInt(ty) /\ b > 0 /\ acc.val > TypeMax(ty) - b THEN [fits |-> FALSE, val |-> 0]
    ELSE IF IsInt(ty) /\ b < 0 /\ acc.val < TypeMin(ty) - b THEN [fits |-> FALSE, val |-> 0]
    ELSE [fits |-> TRUE, val |-> IF IsInt(ty) THEN acc.val + b
                                 ELSE add_f64(acc.val, b)]

RECURSIVE ClaimMix(_, _, _, _, _, _)
\* the sum, from 0, of the contributions of the tracks at positions i.. that
\* are in ids
ClaimMix(i, ids, p, ch, output_channels, ty) ==
    IF i > Len(tracks) THEN [fits |-> TRUE, val |-> 0]
    ELSE LET rest == ClaimMix(i + 1, ids, p, ch, output_channels, ty)
         IN  IF tracks[i].id \in ids
             THEN ClaimAdd(rest, ClaimContribution(tracks[i], p, ch, output_channels, ty), ty)
             ELSE rest

\* C6: a render call over a buffer of n*c samples with c channels advances the
\* playhead by exactly n and leaves in every sample the contributions
\* accumulated from 0: nothing the buffer held before the call survives.
C6_RenderAdvancesAndClears ==
    [][(call'.op = "process" /\ result'.tag = "Ok" /\ call'.aux % call'.arg = 0) =>
        LET c == call'.arg
            n == call'.aux \div c
        IN  /\ playhead_position' - n = playhead_position
            /\ Len(buffer') = n * c
            /\ Len(mixed') = n
            /\ \A k \in 1..(n * c) :
                LET f == (k - 1) \div c
                    m == ClaimMix(1, mixed'[f + 1], playhead_position + f,
                                  (k - 1) % c, c, call'.ty)
                IN  m.fits => buffer'[k] = m.val]_vars

\* C7: the render path never fails: process completes without a panic for
\* every reachable timeline, output type, channel count and buffer length.
C7_RenderNeverPanics ==
    ~(call.op = "process" /\ result.tag = "Panic")

----------------------------------------------------------------------------
(* Claims about the AudioEngine, checked under SpecEngine *)

\* C8: render and control operations on the shared Timeline are mutually
\* exclusive: while a render block is being processed the callback owns the
\* lock, no control operation is in progress, and the tracks and the audible
\* set are those the block started from; while a control operation is in
\* progress the control thread owns the lock.
C8_RenderControlExclusive ==
    /\ pc_render = "frames" =>
        /\ lock = "render"
        /\ pc_ctrl \notin {"locked", "done"}
        /\ tracks = block[1]
        /\ active_track_ids = block[2]
        /\ playhead_position = block[3] + frame_idx
    /\ pc_ctrl \in {"locked", "done"} =>
        /\ lock = "ctrl"
        /\ pc_render # "frames"

\* the callback has been invoked and waits for the lock while the control
\* thread, which soloed a track after an earlier block was rendered, holds it
C8_Witness ==
    /\ pc_render = "lock"
    /\ pc_ctrl = "done" /\ call.op = "solo" /\ result.tag = "Ok"
    /\ lock = "ctrl"
    /\ playhead_position > 0
    /\ \E i \in 1..Len(tracks) : Len(tracks[i].clips) > 0

\* C9: once stop_playing has returned, and until playback is started again,
\* is_playing() is false, the playhead is 0 and no render callback runs.
C9_StopIsSynchronous ==
    (~output_stream /\ pc_ctrl # "stop_lock") =>
        /\ playhead_position = 0
        /\ pc_render \notin {"lock", "frames"}

----------------------------------------------------------------------------
(* Claims about the control surface, checked under Spec *)

TrackScopedOps ==
    {"add_clip", "set_volume", "set_track_name", "mute", "unmute", "solo",
     "unsolo", "is_muted", "is_soloed"}

\* C10: every track-scoped control operation called with a TrackId that no
\* live track has returns Err(TrackNotFound(id)) and leaves the tracks, the
\* audible set and the playhead unchanged.
C10_TrackNotFound ==
    [][(/\ call'.op \in TrackScopedOps
        /\ \A i \in 1..Len(tracks) : tracks[i].id # call'.id) =>
            /\ result' = [tag |-> "TrackNotFound", val |-> call'.id]
            /\ tracks' = tracks
            /\ active_track_ids' = active_track_ids
            /\ playhead_position' = playhead_position]_vars

\* add_clip of a readable source was called with id 3 on a timeline of two
\* tracks, one with a clip, a changed volume and the solo, after a seek
C10_Witness ==
    /\ call.op = "add_clip" /\ call.id = 3 /\ call.arg = 1
    /\ result.tag = "TrackNotFound"
    /\ Len(tracks) = 2
    /\ Len(tracks[1].clips) = 1 /\ tracks[1].volume # Den /\ tracks[1].is_soloed
    /\ Len(tracks[2].clips) = 0
    /\ playhead_position > 0

----------------------------------------------------------------------------
(* Claims about volumes and clip placement, checked under SpecClips *)

\* the track position a call's TrackId refers to in the state before the call
CallTrack == get_mut_track(tracks, call'.id)

InUnitRange(v) == v # NaN /\ 0 <= v /\ v <= Den

\* C11: set_volume(t, p) on a live track succeeds and stores p/100 exactly
\* when p/100 lies in [0, 1]; for every other p it returns InvalidVolume and
\* leaves the volume unchanged; every track's volume is within [0, 1] in
\* every reachable state.
C11_VolumeValidated ==
    [][/\ (call'.op = "set_volume" /\ CallTrack # 0) =>
            LET p == call'.arg IN
            IF p # NaN /\ 0 <= p /\ p <= 100
            THEN /\ result'.tag = "Ok"
                 /\ tracks'[CallTrack].volume * 100 = p * Den
            ELSE /\ result'.tag = "InvalidVolume"
                 /\ tracks'[CallTrack].volume = tracks[CallTrack].volume
       /\ \A i \in 1..Len(tracks') : InUnitRange(tracks'[i].volume)]_vars

\* C12: when add_clip fails, no clip is attached and the tracks (clip lists,
\* durations, flags, volumes), the audible set and the playhead are exactly
\* as before the call.
C12_FailedAddClipChangesNothing ==
    [][(call'.op = "add_clip" /\ result'.tag # "Ok") =>
            /\ tracks' = tracks
            /\ duration_in_samples' = duration_in_samples
            /\ active_track_ids' = active_track_ids
            /\ playhead_position' = playhead_position]_vars

\* add_clip failed in the resampler on a muted track that holds two clips and
\* a changed volume, after a seek
C12_Witness ==
    /\ call.op = "add_clip" /\ call.id = 1
    /\ result.tag = "ResampleError"
    /\ Len(tracks) = 1 /\ Len(tracks[1].clips) = 2
    /\ tracks[1].is_muted /\ tracks[1].volume = Den \div 2
    /\ playhead_position > 0

\* C13: a successful add_clip appends one clip, at start 0 when the track was
\* empty and otherwise at the previous clip's end + 1, where end = start +
\* sample_count / channel_count, for mono and stereo previous clips alike.
C13_AppendAfterPreviousEnd ==
    [][(call'.op = "add_clip" /\ result'.tag = "Ok") =>
            LET old == tracks[CallTrack].clips
                new == tracks'[CallTrack].clips
            IN  /\ Len(new) = Len(old) + 1
                /\ new[Len(new)].start_time_in_samples =
                      IF Len(old) = 0 THEN 0
                      ELSE old[Len(old)].start_time_in_samples
                           + (sample_count(old[Len(old)]) \div old[Len(old)].channel)
                           + 1]_vars

\* the playhead frames up to the end of the track's last clip, and one more
ClipFrames(track) == 0..(Track_duration_in_samples(track) + 1)

ClipsAt(track, F) ==
    {k \in 1..Len(track.clips) :
        /\ track.clips[k].start_time_in_samples <= F
        /\ F < track.clips[k].start_time_in_samples
                + (sample_count(track.clips[k]) \div track.clips[k].channel)}

\* C14: each track's clips are stored in non-decreasing start order with
\* pairwise disjoint [start, end) ranges, and for every playhead frame F
\* find_clip_at_playhead_position returns the unique clip with
\* start <= F < end, or none.
C14_ClipsOrderedAndDisjoint ==
    \A i \in 1..Len(tracks) :
        LET cs == tracks[i].clips
            start(k) == cs[k].start_time_in_samples
            end(k) == start(k) + (sample_count(cs[k]) \div cs[k].channel)
        IN  /\ \A j, k \in 1..Len(cs) :
                    j < k => (start(j) <= start(k) /\ end(j) <= start(k))
            /\ \A F \in ClipFrames(tracks[i]) :
                    /\ Cardinality(ClipsAt(tracks[i], F)) <= 1
                    /\ IF ClipsAt(tracks[i], F) = {}
                       THEN find_clip_at_playhead_position(tracks[i], F) = 0
                       ELSE find_clip_at_playhead_position(tracks[i], F)
                                \in ClipsAt(tracks[i], F)

\* a track of three clips, the second of them stereo; frame 2 lies in no clip
\* and the second clip is the one found at its start
C14_Witness ==
    /\ Len(tracks) = 1 /\ Len(tracks[1].clips) = 3
    /\ tracks[1].clips[1].channel = 1 /\ sample_count(tracks[1].clips[1]) = 2
    /\ tracks[1].clips[2].channel = 2 /\ sample_count(tracks[1].clips[2]) = 4
    /\ sample_count(tracks[1].clips[3]) > 0
    /\ find_clip_at_playhead_position(tracks[1], 2) = 0
    /\ find_clip_at_playhead_position(tracks[1], 3) = 2

\* C15: add_clip of a source whose channel count is neither 1 nor 2 returns
\* an error and attaches nothing; every clip attached to a track has channel
\* count 1 or 2.
C15_OnlyMonoOrStereoClips ==
    [][/\ (/\ call'.op = "add_clip" /\ CallTrack # 0
           /\ Sources[call'.arg].channels \notin {1, 2}) =>
                (result'.tag # "Ok" /\ tracks' = tracks)
       /\ \A i \in 1..Len(tracks') : \A k \in 1..Len(tracks'[i].clips) :
                tracks'[i].clips[k].channel \in {1, 2}]_vars

----------------------------------------------------------------------------
(* Claims about TrackIds, checked under SpecFlags *)

\* C16: the TrackIds handed out by successive new_track calls are 1, 2, 3,
\* ...: each call returns the last track's id + 1 (1 for the first), appends
\* it to get_track_ids and raises track_count by one; no other operation
\* changes track_count, so get_track_ids lists pairwise distinct positive
\* ids in creation order and track_count is the number of new_track calls.
C16_TrackIdsSequential ==
    [][/\ IF call'.op = "new_track"
          THEN /\ track_count' = track_count + 1
               /\ result' = OkVal(track_count + 1)
               /\ get_track_ids' = Append(get_track_ids, result'.val)
          ELSE /\ track_count' = track_count
               /\ get_track_ids' = get_track_ids
       /\ get_track_ids' = [i \in 1..track_count' |-> i]
       /\ \A i, j \in 1..track_count' :
                i < j => get_track_ids'[i] < get_track_ids'[j]]_vars

\* the third new_track call, made while the first track is soloed and the
\* second muted, returned id 3
C16_Witness ==
    /\ call.op = "new_track" /\ result = OkVal(3)
    /\ track_count = 3 /\ get_track_ids = <<1, 2, 3>>
    /\ tracks[1].is_soloed /\ tracks[2].is_muted

----------------------------------------------------------------------------
(* Claims about decoding and (de)interleaving, checked under SpecUtils *)

\* the largest positive raw value of each integer depth
ClaimMaxPositive(scale) ==
    CASE scale = "I8" -> 127
      [] scale = "I16" -> 32767
      [] scale = "I24" -> 8388607
      [] scale = "I32" -> 2147483647

\* C17: for each integer depth and every raw value v of that depth, decoding
\* yields clamp(v / max_positive, -1, 1): the result lies in [-1, 1],
\* max_positive maps to exactly 1, the minimum -max_positive - 1 to exactly
\* -1 and 0 to 0; a 32-bit float is passed through with the same clamp.
C17_DecodeNormalizes ==
    (call.op = "convert_sample_to_f64") =>
        LET v == call.arg
            r == result.val
        IN  IF call.aux = "F32"
            THEN /\ r.den = Den
                 /\ r.num = IF v = NaN THEN NaN
                            ELSE IF v < -Den THEN -Den
                            ELSE IF v > Den THEN Den
                            ELSE v
            ELSE LET max == ClaimMaxPositive(call.aux) IN
                 /\ r.den = max
                 /\ r.num = IF v < -max THEN -max ELSE IF v > max THEN max ELSE v
                 /\ -r.den <= r.num /\ r.num <= r.den
                 /\ (v = max => r.num = r.den)
                 /\ (v = -max - 1 => r.num = -r.den)
                 /\ (v = 0 => r.num = 0)

\* the minimum of the 24-bit range was decoded to exactly -1
C17_Witness ==
    /\ call.op = "convert_sample_to_f64" /\ call.aux = "I24"
    /\ call.arg = -8388608
    /\ result.val.num = -result.val.den

\* C18: decoding a source whose format is not one of 8/16/24/32-bit integer
\* or 32-bit float fails with UnsupportedBitsPerSample carrying the depth;
\* decoding succeeds, with one value per sample, for the five supported
\* formats.
C18_UnsupportedDepthRejected ==
    (call.op = "decode_samples_to_f64") =>
        LET format == call.arg.sample_format
            bits == call.arg.bits_per_sample
        IN  IF \/ format = "Int" /\ bits \in {8, 16, 24, 32}
               \/ format = "Float" /\ bits = 32
            THEN result.tag = "Ok" /\ Len(result.val) = Len(call.aux)
            ELSE result = [tag |-> "UnsupportedBitsPerSample", val |-> bits]

\* a 64-bit float file with samples was given to the decoder
C18_Witness ==
    /\ call.op = "decode_samples_to_f64"
    /\ call.arg = [sample_format |-> "Float", bits_per_sample |-> 64]
    /\ Len(call.aux) > 0
    /\ result.tag = "UnsupportedBitsPerSample"

EqualLengths(channels) ==
    \A c, d \in 1..Len(channels) : Len(channels[c]) = Len(channels[d])

\* C19: interleave(deinterleave(x, c)) = x for every c >= 1 and every buffer
\* x, the empty buffer and buffers whose length is not a multiple of c
\* included; and deinterleave(interleave(chs), c) = chs for every list of
\* c >= 1 channels of equal length.
C19_InterleaveRoundTrip ==
    /\ (call.op = "deinterleave_samples" /\ call.aux >= 1) =>
            Utils_interleave_samples(result.val) = call.arg
    /\ (call.op = "interleave_samples" /\ Len(call.arg) >= 1
            /\ EqualLengths(call.arg)) =>
            Utils_deinterleave_samples(result.val, Len(call.arg)) = call.arg

----------------------------------------------------------------------------
(* Claims about mixing one clip, checked under SpecMix *)

\* C20: for a mono clip active at playhead P (start <= P < end) the clip's
\* contribution to the rendered frame is data[P - start] * volume, added
\* identically to every one of the c >= 1 output channels.  On a timeline of
\* one unmuted track the rendered frame is that contribution: every channel
\* of the frame holds data[P - start] * volume in the output sample type.
C20_MonoToEveryChannel ==
    (/\ call.op = "process" /\ result.tag = "Ok"
     /\ Len(tracks) = 1 /\ ~tracks[1].is_muted) =>
        LET c == call.arg
            n == Len(buffer) \div c
        IN  \A f \in 0..(n - 1) :
                LET P == playhead_position - n + f
                    at == ClipsAt(tracks[1], P)
                IN  \A k \in at :
                        tracks[1].clips[k].channel = 1 =>
                            LET clip == tracks[1].clips[k]
                                x == clip.data[P - clip.start_time_in_samples + 1]
                                y == mul_f64(x, tracks[1].volume)
                            IN  /\ y # NaN => y * Den = x * tracks[1].volume
                                /\ \A ch \in 0..(c - 1) :
                                      buffer[f * c + ch + 1] =
                                          from_f64_sample(call.ty, y)

\* the mono clip 0.5, -0.5, 0.25, -0.25 at start 0 on a track of volume 1.0
\* was rendered to two f32 channels for four frames
C20_Witness ==
    /\ call.op = "process" /\ result.tag = "Ok"
    /\ call.ty = "f32" /\ call.arg = 2 /\ call.aux = 8
    /\ Len(tracks) = 1 /\ tracks[1].volume = Den
    /\ Len(tracks[1].clips) >= 1
    /\ tracks[1].clips[1].channel = 1
    /\ tracks[1].clips[1].start_time_in_samples = 0
    /\ tracks[1].clips[1].data =
            <<Den \div 2, -(Den \div 2), Den \div 4, -(Den \div 4)>>
    /\ playhead_position = 4
    /\ buffer = <<Den \div 2, Den \div 2, -(Den \div 2), -(Den \div 2),
                  Den \div 4, Den \div 4, -(Den \div 4), -(Den \div 4)>>

\* C21: for a stereo clip active at playhead P with offset o = P - start, the
\* contribution to a mono output frame is (data[2o] + data[2o+1]) * volume,
\* and to an output of 2 or more channels it is data[2o] * volume on channel
\* 0, data[2o+1] * volume on channel 1 and nothing on any channel >= 2.  On
\* a timeline of one unmuted track the rendered frame is that contribution.
C21_StereoDownmixAndRouting ==
    (/\ call.op = "process" /\ result.tag = "Ok"
     /\ Len(tracks) = 1 /\ ~tracks[1].is_muted) =>
        LET c == call.arg
            n == Len(buffer) \div c
            volume == tracks[1].volume
        IN  \A f \in 0..(n - 1) :
                LET P == playhead_position - n + f
                IN  \A k \in ClipsAt(tracks[1], P) :
                        tracks[1].clips[k].channel = 2 =>
                            LET clip == tracks[1].clips[k]
                                o == P - clip.start_time_in_samples
                                left == clip.data[2 * o + 1]
                                right == clip.data[2 * o + 2]
                            IN  /\ volume # NaN => (left * volume) % Den = 0
                                /\ volume # NaN => (right * volume) % Den = 0
                                /\ IF c = 1
                                   THEN buffer[f + 1] = from_f64_sample(call.ty,
                                            mul_f64(add_f64(left, right), volume))
                                   ELSE /\ buffer[f * c + 1] = from_f64_sample(call.ty,
                                                mul_f64(left, volume))
                                        /\ buffer[f * c + 2] = from_f64_sample(call.ty,
                                                mul_f64(right, volume))
                                        /\ \A ch \in 2..(c - 1) :
                                                buffer[f * c + ch + 1] = 0

\* the stereo clip (0.25, 0.5), (0.5, 1.0) at start 0 on a track of volume
\* 1.0 was rendered to one f32 channel for two frames: 0.75 and 1.5
C21_Witness ==
    /\ call.op = "process" /\ result.tag = "Ok"
    /\ call.ty = "f32" /\ call.arg = 1 /\ call.aux = 2
    /\ Len(tracks) = 1 /\ tracks[1].volume = Den
    /\ Len(tracks[1].clips) >= 1
    /\ tracks[1].clips[1].channel = 2
    /\ tracks[1].clips[1].data = <<Den \div 4, Den \div 2, Den \div 2, Den>>
    /\ playhead_position = 2
    /\ buffer = <<(3 * Den) \div 4, (3 * Den) \div 2>>

----------------------------------------------------------------------------
(* Further claims about the mute/solo state machine, checked under SpecFlags *)

\* C22: unmute(t) changes nothing except t's muted flag (set to false) and
\* t's membership in the audible set; unsolo(t) changes nothing except t's
\* soloed flag (set to false) and t's membership in the audible set: it does
\* not restore the muted flag of any other track.
C22_UnmuteUnsoloFrame ==
    [][/\ (call'.op = "unmute" /\ result'.tag = "Ok") =>
            /\ tracks' = [tracks EXCEPT ![CallTrack].is_muted = FALSE]
            /\ active_track_ids' \ {call'.id} = active_track_ids \ {call'.id}
            /\ playhead_position' = playhead_position
       /\ (call'.op = "unsolo" /\ result'.tag = "Ok") =>
            /\ tracks' = [tracks EXCEPT ![CallTrack].is_soloed = FALSE]
            /\ active_track_ids' \ {call'.id} = active_track_ids \ {call'.id}
            /\ playhead_position' = playhead_position]_vars

\* unsolo(1) returned on a timeline of three tracks: track 1 is no longer
\* soloed, and tracks 2 and 3 are still muted and outside the audible set
C22_Witness ==
    /\ call.op = "unsolo" /\ call.id = 1 /\ result.tag = "Ok"
    /\ Len(tracks) = 3
    /\ ~tracks[1].is_soloed /\ ~tracks[1].is_muted
    /\ tracks[2].is_muted /\ tracks[3].is_muted
    /\ active_track_ids = {1}

\* C27: a track is a member of the audible set if and only if it is soloed
\* or not muted, in every state reachable through new_track, mute, unmute,
\* solo and unsolo.
C27_ActiveIffSoloedOrUnmuted ==
    \A i \in 1..Len(tracks) :
        (tracks[i].id \in active_track_ids)
            <=> (tracks[i].is_soloed \/ ~tracks[i].is_muted)

\* a track that was muted and then soloed: marked muted, soloed, and in the
\* audible set
C27_Witness ==
    /\ call.op = "solo" /\ call.id = 1 /\ result.tag = "Ok"
    /\ Len(tracks) = 2
    /\ tracks[1].is_muted /\ tracks[1].is_soloed
    /\ active_track_ids = {1}

\* C28: a track created by new_track while another track is soloed is muted
\* and is not in the audible set.
C28_NewTrackMutedUnderSolo ==
    [][(call'.op = "new_track" /\ \E i \in 1..Len(tracks) : tracks[i].is_soloed) =>
            /\ tracks'[Len(tracks')].is_muted
            /\ tracks'[Len(tracks')].id \notin active_track_ids']_vars

----------------------------------------------------------------------------
(* Claims about the timeline's duration, checked under SpecDuration *)

\* the end positions start + frames of all clips of all tracks of ts
ClaimClipEnds(ts) ==
    UNION {{ts[i].clips[k].start_time_in_samples
                + (Len(ts[i].clips[k].data) \div ts[i].clips[k].channel) :
            k \in 1..Len(ts[i].clips)} : i \in 1..Len(ts)}

ClaimMaxEnd(ts) ==
    IF ClaimClipEnds(ts) = {} THEN 0
    ELSE CHOOSE m \in ClaimClipEnds(ts) : \A e \in ClaimClipEnds(ts) : e <= m

\* C23: duration_in_samples() is the maximum clip end position (start +
\* frames) over all clips of all tracks, 0 when there are no tracks or no
\* clips, and it never decreases under any control operation.
C23_DurationIsMaxEnd ==
    [][/\ duration_in_samples' = ClaimMaxEnd(tracks')
       /\ duration_in_samples = ClaimMaxEnd(tracks)
       /\ duration_in_samples' >= duration_in_samples]_vars

\* add_clip returned on a timeline whose first track holds two clips and
\* whose second track holds one: the duration is the end of the first
\* track's second clip, beyond the end of every first clip
C23_Witness ==
    /\ call.op = "add_clip" /\ result.tag = "Ok"
    /\ Len(tracks) = 2
    /\ Len(tracks[1].clips) = 2 /\ Len(tracks[2].clips) = 1
    /\ duration_in_samples = end_time_in_samples(tracks[1].clips[2])
    /\ duration_in_samples > end_time_in_samples(tracks[1].clips[1])
    /\ duration_in_samples > end_time_in_samples(tracks[2].clips[1])

\* the source file of a from_path call and what decoding it gives
CallSource == Sources[call.id]
CallDecoded == decode_samples_to_f64(CallSource)

\* C24: Resampler::resample returns an empty buffer, and neither constructs
\* nor runs the sinc filter, whenever the input buffer is empty or the channel
\* count is 0, whatever the two sample rates are.
C24_EmptyInputSkipsFilter ==
    (call.op = "resample"
        /\ (Len(call.arg.samples) = 0 \/ call.arg.num_channels = 0))
    => /\ result.tag = "Ok"
       /\ result.val = <<>>
       /\ ~result.sinc.invoked

C24_Witness ==
    /\ call.op = "resample"
    /\ call.arg.num_channels = 0
    /\ Len(call.arg.samples) = MaxUtilLen
    /\ call.arg.new_sample_rate # call.arg.old_sample_rate
    /\ call.aux.tag = "ResamplerConstructionError"
    /\ result.tag = "Ok"

\* C25: constructing a clip from a file that opens and decodes calls the
\* resampler exactly when the file's sample rate differs from the timeline's,
\* with the timeline rate as the new and the file's rate as the old rate (the
\* filter ratio is new / old); with equal rates the clip data is the decoded
\* samples, sample for sample.
C25_ResampleIffRatesDiffer ==
    (call.op = "from_path" /\ WavReader_open(CallSource) /\ CallDecoded.tag = "Ok")
    => /\ result.resample.invoked <=> (CallSource.sample_rate # call.aux)
       /\ result.resample.invoked
            => /\ result.resample.new_sample_rate = call.aux
               /\ result.resample.old_sample_rate = CallSource.sample_rate
               /\ result.resample.num_channels = CallSource.channels
               /\ LET sinc == Resampler_resample(CallDecoded.samples,
                                  result.resample.new_sample_rate,
                                  result.resample.old_sample_rate,
                                  result.resample.num_channels,
                                  CallSource.filter).sinc
                  IN  sinc.invoked => /\ sinc.new_sample_rate = call.aux
                                      /\ sinc.old_sample_rate = CallSource.sample_rate
       /\ CallSource.sample_rate = call.aux
            => /\ result.tag = "Ok"
               /\ result.clip.data = CallDecoded.samples

\* a stereo file at another rate was resampled into the clip
C25_Witness ==
    /\ call.op = "from_path"
    /\ CallSource.sample_rate # call.aux
    /\ CallSource.channels = 2
    /\ result.tag = "Ok"
    /\ result.resample.invoked
    /\ Len(result.clip.data) > 0

\* a file at the timeline rate was passed through
C25_WitnessEqual ==
    /\ call.op = "from_path"
    /\ CallSource.sample_rate = call.aux
    /\ result.tag = "Ok"
    /\ ~result.resample.invoked
    /\ Len(result.clip.data) > 0
\* the clips attached to the tracks of the timeline
AttachedClips ==
    {tracks[i].clips[j] : <<i, j>> \in
        {<<i, j>> \in (DOMAIN tracks) \X (1..MaxTrackClips) : j <= Len(tracks[i].clips)}}

\* C26: every clip attached to a track holds a whole number of frames (its
\* buffer length is a multiple of its channel count), whether its file was
\* resampled or not, and its start and duration are not negative.
C26_WholeFrames ==
    \A clip \in AttachedClips :
        /\ clip.channel > 0
        /\ sample_count(clip) % clip.channel = 0
        /\ clip.start_time_in_samples >= 0
        /\ Clip_duration_in_samples(clip) >= 0

\* a resampled stereo clip and a passed-through one are attached
C26_Witness ==
    /\ call.op = "add_clip"
    /\ result.tag = "Ok"
    /\ \E a \in AttachedClips, b \in AttachedClips :
        /\ a.channel = 2
        /\ a.data = Resampler_interleave_samples(Sources[9].filter.waves, 3, 2)
        /\ b.data = decode_samples_to_f64(Sources[1]).samples
\* the sum of the audible tracks' contributions, in the output type ty, to
\* sample k (1-based) of the buffer of the last process call
ClaimFrameSum(k, ty) ==
    ClaimMix(1, ClaimAudibleIds, FramePlayhead((k - 1) \div call.arg + 1),
             (k - 1) % call.arg, call.arg, ty)

\* C29: mixing is additive across tracks: every output sample of a rendered
\* frame is the sum of the audible tracks' volume-scaled contributions to its
\* channel, a track without a clip at that frame contributing nothing.
C29_MixIsSumOfTracks ==
    (call.op = "process" /\ result.tag = "Ok" /\ call.arg > 0) =>
        \A k \in 1..(Len(mixed) * call.arg) :
            /\ ClaimFrameSum(k, call.ty).fits
            /\ buffer[k] = ClaimFrameSum(k, call.ty).val

\* C30: for every output type, the rendered value of a sample is the
\* encoding (from_f64_sample) of the normalized mix of its frame: 127 for a
\* silent unsigned 8-bit frame, the encoding of a + b for two contributions.
C30_EncodesNormalizedMix ==
    (call.op = "process" /\ result.tag = "Ok" /\ call.arg > 0) =>
        \A k \in 1..(Len(mixed) * call.arg) :
            buffer[k] = from_f64_sample(call.ty, ClaimFrameSum(k, "f64").val)
\* the sample stream of the file holds a sample that cannot be read
HasReadError(src) == \E k \in 1..Len(src.samples) : src.samples[k] = ReadError

\* C31: add_clip of a file whose sample stream yields a read error fails
\* with a decode error and attaches no clip: no clip is built from a stream
\* in which an unreadable sample was replaced by a substitute value.
C31_ReadErrorRejected ==
    [][(/\ call'.op = "add_clip" /\ CallTrack # 0
        /\ WavReader_open(Sources[call'.arg])
        /\ HasReadError(Sources[call'.arg]))
       => (result'.tag # "Ok" /\ tracks' = tracks)]_vars
\* C32: after mute(t) has returned Ok, track t contributes to no rendered
\* frame until unmute(t) or solo(t) is called, whatever its flags were at the
\* call (muted and soloed included): a render that directly follows the mute
\* mixes nothing from t.
C32_MutedTrackIsSilent ==
    [][(call.op = "mute" /\ result.tag = "Ok" /\ call'.op = "process") =>
            \A f \in 1..Len(mixed') : call.id \notin mixed'[f]]_vars

----------------------------------------------------------------------------
(* Claims about the flag operations from every state, checked under SpecTrack *)

\* the ids of the live tracks
ClaimLiveIds == {tracks[i].id : i \in 1..Len(tracks)}

\* calling op with a live id on the current timeline once, and calling it
\* again with that id on the outcome
ClaimOnce(op(_, _, _), id) ==
    op(tracks, active_track_ids, get_mut_track(tracks, id))
ClaimTwice(op(_, _, _), id) ==
    op(ClaimOnce(op, id).tracks, ClaimOnce(op, id).active,
       get_mut_track(ClaimOnce(op, id).tracks, id))

\* C33: mute, unmute, solo and unsolo are idempotent: from every reachable
\* state, the operation called twice in succession on a track leaves all the
\* flags and the audible set as one call does.
C33_FlagOpsIdempotent ==
    \A id \in ClaimLiveIds :
        /\ ClaimTwice(mute_found, id) = ClaimOnce(mute_found, id)
        /\ ClaimTwice(unmute_found, id) = ClaimOnce(unmute_found, id)
        /\ ClaimTwice(solo_found, id) = ClaimOnce(solo_found, id)
        /\ ClaimTwice(unsolo_found, id) = ClaimOnce(unsolo_found, id)

\* a state after a mute in which a second track is soloed and in no audible
\* set (it was soloed through Track::solo): one call of each operation
\* changes the state, on some track
C33_Witness ==
    /\ call.op = "mute" /\ result.tag = "Ok"
    /\ Len(tracks) = MaxCtlTracks
    /\ \E i \in 1..Len(tracks) :
            tracks[i].is_soloed /\ tracks[i].id \notin active_track_ids
    /\ \E id \in ClaimLiveIds : ClaimOnce(mute_found, id).tracks # tracks
    /\ \E id \in ClaimLiveIds : ClaimOnce(unmute_found, id).tracks # tracks
    /\ \E id \in ClaimLiveIds :
            /\ ClaimOnce(solo_found, id).tracks # tracks
            /\ ClaimOnce(solo_found, id).active # active_track_ids
    /\ \E id \in ClaimLiveIds : ClaimOnce(unsolo_found, id).tracks # tracks

\* C34: with no seek or reset from the control path, playback eventually
\* reaches, and stays in, the state where the playhead is at or beyond
\* duration_in_samples and every render block is silent.
C34_PlaybackReachesSilence ==
    <>[](playhead_position >= duration_in_samples)

\* the mute and solo flags of the tracks
ClaimFlags(ts) == [i \in 1..Len(ts) |-> <<ts[i].is_muted, ts[i].is_soloed>>]

\* C35: new_track, mute, unmute, solo, unsolo, set_volume and set_track_name
\* change neither the playhead nor the clip list of any track; set_volume
\* and set_track_name change no mute or solo flag and not the audible set;
\* process changes nothing of the tracks (flags, volumes, clips) and not the
\* audible set.
C35_OpsTouchOnlyTheirTarget ==
    [][/\ call'.op \in {"new_track", "mute", "unmute", "solo", "unsolo",
                        "set_volume", "set_track_name"}
            => /\ playhead_position' = playhead_position
               /\ Len(tracks') >= Len(tracks)
               /\ \A i \in 1..Len(tracks) : tracks'[i].clips = tracks[i].clips
       /\ call'.op \in {"set_volume", "set_track_name"}
            => /\ ClaimFlags(tracks') = ClaimFlags(tracks)
               /\ active_track_ids' = active_track_ids
       /\ call'.op = "process"
            => /\ tracks' = tracks
               /\ active_track_ids' = active_track_ids]_vars

\* after a render that moved the playhead and mixed a clip, a soloed track
\* was renamed while another track holds a changed volume
C35_Witness ==
    /\ call.op = "set_track_name" /\ result.tag = "Ok"
    /\ playhead_position > 0
    /\ Len(tracks) = 2
    /\ tracks[call.id].is_soloed
    /\ tracks[call.id].name = <<"Name", call.arg>>
    /\ Len(tracks[call.id].clips) > 0
    /\ \E i \in 1..Len(tracks) : tracks[i].volume = Den \div 2

\* C36: the control thread and the render callback do not deadlock on the
\* Mutex: when control operations return and the Mutex is granted fairly, a
\* callback that has started gets the Mutex and comes to its end, and
\* stop_playing and stop_recording, which have dropped their stream before
\* they lock, return.
C36_NoDeadlock ==
    /\ (pc_render \in {"lock", "frames"}) ~> (pc_render \in {"idle", "dead"})
    /\ (pc_ctrl \in {"stop_lock", "stop_rec_lock"}) ~> (pc_ctrl = "idle")

\* a callback waits for the Mutex while the control thread, which has
\* just locked it, is about to change tracks that hold clips
C36_Witness ==
    /\ pc_render = "lock"
    /\ pc_ctrl = "locked" /\ lock = "ctrl"
    /\ playhead_position > 0
    /\ Len(tracks) = MaxCtlTracks
    /\ \A i \in 1..Len(tracks) : Len(tracks[i].clips) > 0
====
